---- MODULE Spec2Model ----
(***************************************************************************)
(* Admission queue, generation guard, conversation loop and tool registry  *)
(* of the daemon (daemon/server.py, daemon/chat.py,                        *)
(* daemon/tools/registry.py).                                              *)
(*                                                                         *)
(* Part 1 models the event loop of the server: every chat request is a    *)
(* task that runs from one suspension point to the next while it is at    *)
(* the head of the loop's ready queue; backend generations run on worker  *)
(* threads and finish at any later moment.                                 *)
(***************************************************************************)
EXTENDS Integers, Sequences, FiniteSets, TLC

\* ------------------------------------------------------------------ bounds
\* messages added to one session in the model of the title
MaxMessages == 3
\* number of chat requests that arrive
NReq == 2
\* positions add_to_queue hands out at most when AppState is driven by its
\* methods alone
MaxPositions == 5
\* backend calls one conversation makes at most in the admission model
MaxRounds == 1
\* ticks of the wall clock a request counts since it registered; its
\* overall deadline may fire once that many have passed
DeadlineTicks == 1
\* pieces a response text handed to parse_tool_calls is made of at most
MaxBlocks == 3
\* largest max_tool_rounds of a profile in the loop model
MaxToolRounds == 4

\* ------------------------------------------------------- program constants
\* milliseconds of wall-clock time one tick of the model stands for
TickMs == 1000
\* was_queued = queue_wait_ms > 10
QueuedThresholdMs == 10
\* N = 3 concurrent sessions of the regression test
NConcurrent == 3
\* len(final_content) < 50 and round_num < 3 of the nudge
NudgeMaxLen == 50
NudgeRounds == 3
\* max_len of _truncate_args and of _truncate_result
ArgMaxLen == 200
ResultMaxLen == 500
\* title = content[:50] + ("..." if len(content) > 50 else "")
TitleMaxLen == 50

\* the requests of the model: NReq of them arrive at any time; the scenario
\* of the regression test has NConcurrent
Requests == 1..(IF NReq < NConcurrent THEN NConcurrent ELSE NReq)
SessionIds == Requests
NoSession == 0
NoPos == -1
Kinds == {"session", "stream", "stateless"}

VARIABLES
    app,              \* AppState: flag, generating id, queued list, position map, counter
    generation_lock,  \* asyncio.Lock: [locked, waiters]
    req,              \* per request: handler position and its local variables
    ready,            \* ready queue of the event loop: tasks to run, in order
    thread,           \* worker thread of the backend call of each request
    text,             \* parse_tool_calls: the response text, a sequence of tokens
    parsed,           \* parse_tool_calls: its outcome on text, once it ran
    loop,             \* chat / chat_async: the locals of one run
    registry,         \* ToolRegistry: _tools and _lazy_loaders
    call,             \* chat_async: one turn of "for tc in tool_calls"
    store,            \* SessionStore: the session files on disk
    session,          \* per request: the messages of the Session object it loaded
    given,            \* per request: the conversation chat_async starts from
    model_size,       \* per request: the model_size field of its body
    event_queue,      \* per stream: the asyncio.Queue between chat_task and generator
    chunks,           \* per stream: the events event_generator yielded, in order
    the_session       \* a Session object: its title and its messages

qvars == <<app, generation_lock, req, ready, thread>>
pvars == <<text, parsed>>
lvars == <<loop, registry, call>>
svars == <<store, session, given, model_size, event_queue, chunks>>
tvars == <<the_session>>
vars == <<app, generation_lock, req, ready, thread, text, parsed, loop, registry,
          call, store, session, given, model_size, event_queue, chunks,
          the_session>>

\* ------------------------------------------------------------- AppState
AppInit ==
    [ generation_in_progress |-> FALSE,
      generating_session_id  |-> NoSession,
      queued_session_ids     |-> << >>,
      position_map           |-> [s \in SessionIds |-> NoPos],
      next_position          |-> 0,
      queue_lock             |-> FALSE ]

\* `with self._queue_lock:` of the four methods below: the threading.Lock
\* is taken on entry and given back on every way out of the block
queue_lock_enter(a) == [a EXCEPT !.queue_lock = TRUE]
queue_lock_exit(a) == [a EXCEPT !.queue_lock = FALSE]

InSeq(x, s) == \E i \in 1..Len(s) : s[i] = x

\* list.remove(x): drops the first occurrence
SeqRemove(s, x) ==
    IF ~InSeq(x, s) THEN s
    ELSE LET i == CHOOSE k \in 1..Len(s) :
                     s[k] = x /\ \A j \in 1..(k - 1) : s[j] # x
         IN  SubSeq(s, 1, i - 1) \o SubSeq(s, i + 1, Len(s))

\* a dict of session id -> position; NoPos marks an absent key
Keys(m) == {k \in DOMAIN m : m[k] # NoPos}
MapPut(m, k, v) == [m EXCEPT ![k] = v]
MapDel(m, k) == [m EXCEPT ![k] = NoPos]

set_generating(a, value, session_id) ==
    queue_lock_exit(
        [queue_lock_enter(a) EXCEPT
              !.generation_in_progress = value,
              !.generating_session_id =
                  IF value /\ session_id # NoSession THEN session_id
                  ELSE IF ~value THEN NoSession
                  ELSE @])

\* a mutant: the position is the length of the waiting list
add_to_queue_len(a, session_id) ==
    IF session_id \in Keys(a.position_map) THEN a
    ELSE [a EXCEPT !.next_position = @ + 1,
                   !.position_map = MapPut(@, session_id, Len(a.queued_session_ids)),
                   !.queued_session_ids =
                       IF InSeq(session_id, @) THEN @ ELSE Append(@, session_id)]

\* a mutant: the counter is not advanced
add_to_queue_nocount(a, session_id) ==
    IF session_id \in Keys(a.position_map) THEN a
    ELSE [a EXCEPT !.position_map = MapPut(@, session_id, a.next_position),
                   !.queued_session_ids =
                       IF InSeq(session_id, @) THEN @ ELSE Append(@, session_id)]

\* a mutant: a session that is registered is given a new position
add_to_queue_fresh(a, session_id) ==
    [a EXCEPT !.next_position = @ + 1,
              !.position_map = MapPut(@, session_id, a.next_position),
              !.queued_session_ids =
                  IF InSeq(session_id, @) THEN @ ELSE Append(@, session_id)]

\* a mutant: the early return leaves the block without giving the lock back
add_to_queue_held(a, session_id) ==
    LET held == queue_lock_enter(a)
    IN  IF session_id \in Keys(held.position_map) THEN held
        ELSE queue_lock_exit(
                 [held EXCEPT !.next_position = @ + 1,
                              !.position_map = MapPut(@, session_id, held.next_position),
                              !.queued_session_ids =
                                  IF InSeq(session_id, @) THEN @ ELSE Append(@, session_id)])

add_to_queue(a, session_id) ==
    LET held == queue_lock_enter(a)
    IN  queue_lock_exit(
            IF session_id \in Keys(held.position_map) THEN held
            ELSE [held EXCEPT !.next_position = @ + 1,
                              !.position_map = MapPut(@, session_id, held.next_position),
                              !.queued_session_ids =
                                  IF InSeq(session_id, @) THEN @ ELSE Append(@, session_id)])

remove_from_queue_keepmap(a, session_id) ==
    queue_lock_exit(
        [queue_lock_enter(a) EXCEPT
              !.queued_session_ids = SeqRemove(@, session_id),
              !.generating_session_id = IF @ = session_id THEN NoSession ELSE @])

remove_from_queue(a, session_id) ==
    queue_lock_exit(
        [queue_lock_enter(a) EXCEPT
              !.queued_session_ids = SeqRemove(@, session_id),
              !.position_map = IF session_id \in Keys(@) THEN MapDel(@, session_id) ELSE @,
              !.generating_session_id = IF @ = session_id THEN NoSession ELSE @])

\* GET /generation/status: the generating session and a copy of the list
GenerationStatus(generating_session_id, queued_session_ids) ==
    [generating_session_id |-> generating_session_id,
     queued_session_ids |-> queued_session_ids]

get_generation_status(a) ==
    LET held == queue_lock_enter(a)
    IN  [status |-> GenerationStatus(held.generating_session_id, held.queued_session_ids),
         app |-> queue_lock_exit(held)]

\* ---------------------------------------------------------- asyncio.Lock
LockInit == [locked |-> FALSE, waiters |-> << >>]

\* Lock.acquire takes the lock at once only if it is free and every waiter
\* has been cancelled
LockFree(l, rq) ==
    ~l.locked /\ \A i \in 1..Len(l.waiters) : rq[l.waiters[i]].wfut = "cancelled"

\* Lock._wake_up_first: the request whose future gets its result, or 0
FirstToWake(l, rq) ==
    IF l.waiters # << >> /\ rq[l.waiters[1]].wfut = "pending"
    THEN l.waiters[1] ELSE 0

Task(r, t) == [r |-> r, t |-> t]
InReady(r, t) == InSeq(Task(r, t), ready)
IsHead(r, t) == ready # << >> /\ Head(ready) = Task(r, t)

\* ---------------------------------------------------------------------
\* Part 2: response texts. A text is a sequence of tokens; the tags, the
\* braces and a blank are tokens of their own, so that the regular
\* expressions of chat.py see them where they stand.
Tok(k, v) == [k |-> k, v |-> v]
OPEN     == Tok("tag", "<tool_call>")
CLOSE    == Tok("tag", "</tool_call>")
THINK    == Tok("tag", "<think>")
ENDTHINK == Tok("tag", "</think>")
LB       == Tok("tag", "{")
RB       == Tok("tag", "}")
WS       == Tok("ws", " ")
\* "name": <v> inside a JSON object; v = "[x]" is the JSON array ["x"]
Name(n)  == Tok("name", n)
\* "arguments": and the values that may follow it
ArgsKey  == Tok("key", "arguments")
NullTok  == Tok("null", "null")
Pair(k)  == Tok("pair", k)
Txt(v)   == Tok("text", v)
\* a JSON value nested deeper than the recursion limit of the decoder
Deep     == Tok("deep", "{{{...}}}")

\* a string value is known by its length: the first len characters of a
\* text of `of` characters, followed by tail
Str(n) == [t |-> "str", len |-> n, of |-> n, tail |-> ""]
\* a value that is no string
IntValue == [t |-> "int", len |-> 0, of |-> 0, tail |-> ""]
\* value[:k] and value + "..."
Slice(v, k) == [v EXCEPT !.len = IF @ < k THEN @ ELSE k]
Ellipsis(v) == [v EXCEPT !.tail = "..."]

\* the JSON values a tool call carries: a dict of keys and their values
ArgsOf(values) == [t |-> "dict", keys |-> DOMAIN values, values |-> values]
DictOf(keys) == ArgsOf([k \in keys |-> Str(1)])
NullArgs == [t |-> "null", keys |-> {}, values |-> << >>]
ToolCall(name, arguments) == [name |-> name, arguments |-> arguments]

\* first index >= i of a token that is not whitespace (Len + 1 if none)
RECURSIVE SkipWs(_, _)
SkipWs(t, i) ==
    IF i <= Len(t) /\ t[i] = WS THEN SkipWs(t, i + 1) ELSE i

\* the object after "arguments": from the brace at i: index of its closing
\* brace, or 0 if something else than pairs stands in it
RECURSIVE DictEnd(_, _)
DictEnd(b, i) ==
    IF i > Len(b) THEN 0
    ELSE IF b[i] = RB THEN i
    ELSE IF b[i] = WS \/ b[i].k = "pair" THEN DictEnd(b, i + 1)
    ELSE 0

DictKeys(b, i, j) == {b[x].v : x \in {y \in i..j : b[y].k = "pair"}}

\* json.loads on a body that starts with a brace (the regular expression
\* hands over nothing else), followed by data.get("name", "") and
\* data.get("arguments", {}). exc = "" is a dict; "JSONDecodeError" is
\* malformed JSON; "RecursionError" is JSON nested deeper than the decoder
\* can follow (the token Deep stands for such a nesting)
RECURSIVE Members(_, _, _)
Members(b, i, acc) ==
    IF i > Len(b) THEN [acc EXCEPT !.exc = "JSONDecodeError"]
    ELSE IF i = Len(b)
         THEN [acc EXCEPT !.exc = IF b[i] = RB THEN "" ELSE "JSONDecodeError"]
    ELSE IF b[i] = WS THEN Members(b, i + 1, acc)
    ELSE IF b[i] = Deep THEN [acc EXCEPT !.exc = "RecursionError"]
    ELSE IF b[i].k = "name" THEN Members(b, i + 1, [acc EXCEPT !.name = b[i].v])
    ELSE IF b[i] = ArgsKey /\ b[i + 1] = NullTok
         THEN Members(b, i + 2, [acc EXCEPT !.arguments = NullArgs])
    ELSE IF b[i] = ArgsKey /\ b[i + 1] = LB /\ DictEnd(b, i + 2) # 0
         THEN Members(b, DictEnd(b, i + 2) + 1,
                      [acc EXCEPT !.arguments =
                           DictOf(DictKeys(b, i + 2, DictEnd(b, i + 2)))])
    ELSE [acc EXCEPT !.exc = "JSONDecodeError"]

JsonLoads(b) ==
    IF Len(b) < 2 \/ b[1] # LB
    THEN [exc |-> "JSONDecodeError", name |-> "", arguments |-> DictOf({})]
    ELSE Members(b, 2, [exc |-> "", name |-> "", arguments |-> DictOf({})])

\* re: <tool_call>\s*({.*?})\s*</tool_call> tried at index i. The lazy body
\* ends at the first closing brace that is followed by the closing tag.
\* [hit, from, to, last]: the group is text[from..to], the match ends at last
BodyEnds(t, from) ==
    {k \in from..Len(t) : t[k] = RB /\ SkipWs(t, k + 1) <= Len(t)
                                    /\ t[SkipWs(t, k + 1)] = CLOSE}

Least(S) == CHOOSE k \in S : \A x \in S : k <= x

MatchAt(t, i) ==
    LET j == SkipWs(t, i + 1)
    IN  IF t[i] = OPEN /\ j <= Len(t) /\ t[j] = LB /\ BodyEnds(t, j) # {}
        THEN [hit |-> TRUE, from |-> j, to |-> Least(BodyEnds(t, j)),
              last |-> SkipWs(t, Least(BodyEnds(t, j)) + 1)]
        ELSE [hit |-> FALSE, from |-> 0, to |-> 0, last |-> 0]

\* re.findall: the groups of the non-overlapping matches, left to right
RECURSIVE FindAll(_, _)
FindAll(t, i) ==
    IF i > Len(t) THEN << >>
    ELSE LET m == MatchAt(t, i)
         IN  IF m.hit THEN <<SubSeq(t, m.from, m.to)>> \o FindAll(t, m.last + 1)
             ELSE FindAll(t, i + 1)

\* the loop of parse_tool_calls over the matches: JSONDecodeError skips
\* the match, any other exception leaves the function
Parsed(exc, calls) == [exc |-> exc, calls |-> calls]

RECURSIVE CallsOf(_, _)
CallsOf(matches, calls) ==
    IF matches = << >> THEN Parsed("", calls)
    ELSE LET data == JsonLoads(Head(matches))
         IN  IF data.exc = "" 
             THEN CallsOf(Tail(matches), Append(calls, ToolCall(data.name, data.arguments)))
             ELSE IF data.exc = "JSONDecodeError" THEN CallsOf(Tail(matches), calls)
             ELSE Parsed(data.exc, << >>)

parse_tool_calls(response) == CallsOf(FindAll(response, 1), << >>)

\* re.sub(open .*? close, "", text): every stretch from an opening tag to
\* the nearest closing tag after it is dropped
RECURSIVE Strip(_, _, _, _)
Strip(t, i, open, close) ==
    IF i > Len(t) THEN << >>
    ELSE IF t[i] = open /\ \E k \in (i + 1)..Len(t) : t[k] = close
         THEN Strip(t, Least({k \in (i + 1)..Len(t) : t[k] = close}) + 1, open, close)
         ELSE <<t[i]>> \o Strip(t, i + 1, open, close)

\* str.strip
RECURSIVE RStrip(_)
RStrip(t) == IF t # << >> /\ t[Len(t)] = WS THEN RStrip(SubSeq(t, 1, Len(t) - 1)) ELSE t
StrStrip(t) == LET r == RStrip(t) IN SubSeq(r, SkipWs(r, 1), Len(r))

\* the two halves of an opening tag that something else stands between
OpenHead == Tok("text", "<tool_")
OpenTail == Tok("text", "call>")

\* the tags a text holds are those its characters spell: two halves that
\* have come to stand side by side are the tag
RECURSIVE Join(_)
Join(t) ==
    IF Len(t) < 2 THEN t
    ELSE IF t[1] = OpenHead /\ t[2] = OpenTail
         THEN <<OPEN>> \o Join(SubSeq(t, 3, Len(t)))
         ELSE <<t[1]>> \o Join(Tail(t))

\* re.sub of the tool-call fences, re.sub of the reasoning fences on what
\* is left, strip; each re.sub is one pass over its input
extract_final_response(response) ==
    StrStrip(Join(Strip(Join(Strip(response, 1, OPEN, CLOSE)), 1, THINK, ENDTHINK)))

\* len(): the characters of a text
CharLen(tok) ==
    IF tok.k = "text" /\ tok.v = "long" THEN 60
    ELSE IF tok.k = "tag" \/ tok.k = "text" \/ tok.k = "name" THEN Len(tok.v) + 0
    ELSE IF tok.k = "key" THEN 12
    ELSE IF tok.k = "null" THEN 4
    ELSE IF tok.k = "pair" THEN 7
    ELSE 1

RECURSIVE StrLen(_)
StrLen(t) == IF t = << >> THEN 0 ELSE CharLen(Head(t)) + StrLen(Tail(t))

\* the pieces responses are made of
ArgsText(a) ==
    CASE a = "dict"  -> <<ArgsKey, LB, Pair("q"), RB>>
      [] a = "empty" -> <<ArgsKey, LB, RB>>
      [] a = "null"  -> <<ArgsKey, NullTok>>
      [] OTHER       -> << >>
CallBlock(n, a) == <<OPEN, LB, Name(n)>> \o ArgsText(a) \o <<RB, CLOSE>>
BadUnclosed == <<OPEN, LB, Txt("bad json"), CLOSE>>
BadClosed   == <<OPEN, LB, Txt("bad json"), RB, CLOSE>>
NoBrace     == <<OPEN, Txt("bad json"), CLOSE>>
DeepBlock   == <<OPEN, LB, Deep, RB, CLOSE>>
Hello       == <<Txt("Hello")>>
LongText    == <<Txt("long")>>
Thinking    == <<THINK, Txt("hmm"), ENDTHINK>>
\* reasoning that was cut off before its closing tag
Unclosed    == <<THINK, Txt("hmm")>>
\* <tool_<think>hmm</think>call>{"name": "web_search"}</tool_call>
SplitCall   == <<OpenHead>> \o Thinking \o <<OpenTail, LB, Name("web_search"), RB, CLOSE>>

NotParsed == [done |-> FALSE, exc |-> "", calls |-> << >>,
              extracted |-> FALSE, content |-> << >>]

\* ---------------------------------------------------------------------
\* Part 3: the tool registry. A tool is known by its name; what its body
\* does when it runs, and whether its module can be imported, are inputs.
ToolNames == {"get_current_datetime", "web_search"}
IsAsync(name) == name = "web_search"
\* a JSON array or object as the "name" of a call cannot be a dict key
Unhashable(name) == name = "[x]"

RegistryInit == [tools |-> {}, lazy |-> ToolNames]

Lookup(raised, found, reg) == [raised |-> raised, found |-> found, registry |-> reg]

\* a mutant: the loader of a loaded tool is kept
_load_lazy_keeps(reg, name, imports) ==
    IF name \notin reg.lazy THEN Lookup(FALSE, FALSE, reg)
    ELSE IF imports
         THEN Lookup(FALSE, TRUE, [tools |-> reg.tools \cup {name}, lazy |-> reg.lazy])
         ELSE Lookup(FALSE, FALSE, reg)

\* importlib.import_module and getattr succeed (imports) or fail; a tool that
\* was loaded moves from the loaders to the tools
_load_lazy(reg, name, imports) ==
    IF name \notin reg.lazy THEN Lookup(FALSE, FALSE, reg)
    ELSE IF imports
         THEN Lookup(FALSE, TRUE, [tools |-> reg.tools \cup {name},
                                   lazy |-> reg.lazy \ {name}])
         ELSE Lookup(FALSE, FALSE, reg)

get(reg, name, imports) ==
    IF Unhashable(name) THEN Lookup(TRUE, FALSE, reg)
    ELSE IF name \in reg.tools THEN Lookup(FALSE, TRUE, reg)
    ELSE _load_lazy(reg, name, imports)

\* the names of the registered tools, the lazy ones included
available_tools(reg) == reg.tools \cup reg.lazy

\* what a call hands back: a string, or an exception that leaves it
Returns(value, reg) == [raised |-> FALSE, exc |-> "", value |-> value, registry |-> reg]
Raises(exc, reg)    == [raised |-> TRUE, exc |-> exc, value |-> << >>, registry |-> reg]

\* json.dumps({"error": f"<prefix><detail>"})
JsonError(message) == <<"{\"error\": \"">> \o message \o <<"\"}">>
ToolOutput(name) == <<"output of ", name>>

\* tool.execute(**arguments) inside the try block: body = "ok" or "raise";
\* arguments that are no mapping raise before the body runs
Invoke(name, arguments, body) ==
    IF arguments.t # "dict" THEN JsonError(<<"Tool execution failed: ", "argument after ** must be a mapping">>)
    ELSE IF body = "raise" THEN JsonError(<<"Tool execution failed: ", "boom">>)
    ELSE ToolOutput(name)

execute(reg, name, arguments, body, imports) ==
    LET tool == get(reg, name, imports)
    IN  IF tool.raised THEN Raises("TypeError", reg)
        ELSE IF ~tool.found THEN Returns(JsonError(<<"Unknown tool: ", name>>), tool.registry)
        ELSE IF arguments.t = "dict" /\ body = "ok" /\ IsAsync(name)
             THEN Returns(JsonError(<<"Tool ", name, " is async, use execute_async()">>), tool.registry)
        ELSE Returns(Invoke(name, arguments, body), tool.registry)

execute_async(reg, name, arguments, body, imports) ==
    LET tool == get(reg, name, imports)
    IN  IF tool.raised THEN Raises("TypeError", reg)
        ELSE IF ~tool.found THEN Returns(JsonError(<<"Unknown tool: ", name>>), tool.registry)
        ELSE Returns(Invoke(name, arguments, body), tool.registry)

\* ---------------------------------------------------------------------
\* Part 4: the conversation loop, ChatService.chat and chat_async.
ToolResult(tool_name, result) == [tool_name |-> tool_name, result |-> result]
ChatMessage(role, kind, content, results) ==
    [role |-> role, kind |-> kind, content |-> content, results |-> results]
Nudge == ChatMessage("user", "nudge", << >>, << >>)

\* what _truncate_args hands back, or that it raised
Truncated(raised, value) == [raised |-> raised, value |-> value]

\* a mutant: the argument named code is cut like the others
_truncate_args_all(args) ==
    IF args.t # "dict" THEN Truncated(TRUE, args)
    ELSE Truncated(FALSE, ArgsOf([key \in args.keys |->
             LET value == args.values[key]
             IN  IF value.t = "str" /\ value.len > ArgMaxLen
                 THEN Ellipsis(Slice(value, ArgMaxLen)) ELSE value]))

\* _truncate_args: args.items() fails on what is no dict
_truncate_args(args) ==
    IF args.t # "dict" THEN Truncated(TRUE, args)
    ELSE Truncated(FALSE, ArgsOf([key \in args.keys |->
             LET value == args.values[key]
             IN  IF value.t = "str"
                 THEN IF key = "code" THEN value
                      ELSE IF value.len > ArgMaxLen
                           THEN Ellipsis(Slice(value, ArgMaxLen))
                           ELSE value
                 ELSE value]))

_truncate_result(result) ==
    IF result.len > ResultMaxLen THEN Ellipsis(Slice(result, ResultMaxLen)) ELSE result

\* one tool call of a round with the values it carries
CallIdle ==
    [pc |-> "idle", arguments |-> NullArgs, tool_args |-> NullArgs,
     received |-> NullArgs, result |-> Str(0), tool_result |-> Str(0),
     tool_results |-> << >>]

NoResponse ==
    [returned |-> FALSE, content |-> << >>, rounds_used |-> 0, finished |-> FALSE]

LoopIdle ==
    [pc |-> "idle", mode |-> "async", has_tools |-> FALSE, max_rounds |-> 0,
     round_num |-> 0, backend_calls |-> 0, conversation |-> << >>,
     conversation_history |-> << >>, messages |-> << >>,
     response |-> << >>, tool_calls |-> << >>, round_results |-> << >>,
     all_tool_calls |-> << >>, all_tool_results |-> << >>,
     events |-> << >>, exc |-> "", result |-> NoResponse]

\* the progress events chat_async hands to on_event; chat has no event sink
Event(type, round, tool_name) == [type |-> type, round |-> round, tool_name |-> tool_name]
\* a mutant: the newest event is put in front of the earlier ones
emit_infront(l, evs) == IF l.mode = "async" THEN [l EXCEPT !.events = evs \o @] ELSE l

emit(l, evs) == IF l.mode = "async" THEN [l EXCEPT !.events = @ \o evs] ELSE l

\* the head of a round up to the backend call: round_start, generating
RoundStart(l) ==
    emit(l, <<Event("round_start", l.round_num + 1, ""),
              Event("generating", l.round_num + 1, "")>>)

\* re.search(r"<think>(.*?)</think>"): the stripped text of the first
\* reasoning fence, empty when there is none
extract_thinking(response) ==
    IF \E i, j \in 1..Len(response) : i < j /\ response[i] = THINK /\ response[j] = ENDTHINK
    THEN LET i == Least({x \in 1..Len(response) : response[x] = THINK})
             j == Least({x \in (i + 1)..Len(response) : response[x] = ENDTHINK})
         IN  StrStrip(SubSeq(response, i + 1, j - 1))
    ELSE << >>

\* one more round, or the budget is used up (the for loop of chat)
NextRound(l) ==
    IF l.round_num + 1 < l.max_rounds
    THEN RoundStart([l EXCEPT !.pc = "generate", !.round_num = @ + 1,
                              !.tool_calls = << >>, !.round_results = << >>])
    ELSE [l EXCEPT !.pc = "returned", !.tool_calls = << >>, !.round_results = << >>,
                   !.result = [returned |-> TRUE,
                               content |-> extract_final_response(l.response),
                               rounds_used |-> l.max_rounds,
                               finished |-> FALSE]]

Contains(t, tok) == \E i \in 1..Len(t) : t[i] = tok

\* the input format of the model: one dict of role and content per message
MessageDict(role, kind, content, results) ==
    [role |-> role, content |-> [kind |-> kind, text |-> content, results |-> results]]
SystemPrompt == MessageDict("system", "system_prompt", << >>, << >>)

\* a mutant: the system prompt is put after the conversation
_build_messages_last(system_prompt, conversation) ==
    [i \in 1..Len(conversation) |->
        MessageDict(conversation[i].role, conversation[i].kind,
                    conversation[i].content, conversation[i].results)]
    \o <<system_prompt>>

_build_messages(system_prompt, conversation) ==
    <<system_prompt>> \o
    [i \in 1..Len(conversation) |->
        MessageDict(conversation[i].role, conversation[i].kind,
                    conversation[i].content, conversation[i].results)]

\* a mutant: the nudge is given in every round
AfterGenerate_nocutoff(l, response) ==
    LET l0 == [l EXCEPT !.backend_calls = @ + 1, !.response = response,
                        !.messages = _build_messages(SystemPrompt, l.conversation)]
        l1 == IF extract_thinking(response) # << >>
              THEN emit(l0, <<Event("thinking", l.round_num + 1, "")>>) ELSE l0
        tool_calls == parse_tool_calls(response)
        final_content == extract_final_response(response)
    IN  IF tool_calls.exc # ""
        THEN [l1 EXCEPT !.pc = "raised", !.exc = tool_calls.exc]
        ELSE IF tool_calls.calls = << >>
        THEN IF /\ Contains(response, THINK)
                /\ StrLen(final_content) < NudgeMaxLen
                /\ l.has_tools
             THEN NextRound([l1 EXCEPT !.conversation =
                     @ \o <<ChatMessage("assistant", "response", response, << >>), Nudge>>])
             ELSE [l1 EXCEPT !.pc = "returned",
                             !.result = [returned |-> TRUE,
                                         content |-> final_content,
                                         rounds_used |-> l.round_num + 1,
                                         finished |-> TRUE]]
        ELSE [l1 EXCEPT !.pc = "tools", !.tool_calls = tool_calls.calls,
                        !.round_results = << >>]

\* the round after the backend handed back response
AfterGenerate(l, response) ==
    LET l0 == [l EXCEPT !.backend_calls = @ + 1, !.response = response,
                        !.messages = _build_messages(SystemPrompt, l.conversation)]
        l1 == IF extract_thinking(response) # << >>
              THEN emit(l0, <<Event("thinking", l.round_num + 1, "")>>) ELSE l0
        tool_calls == parse_tool_calls(response)
        final_content == extract_final_response(response)
    IN  IF tool_calls.exc # ""
        THEN [l1 EXCEPT !.pc = "raised", !.exc = tool_calls.exc]
        ELSE IF tool_calls.calls = << >>
        THEN IF /\ Contains(response, THINK)
                /\ StrLen(final_content) < NudgeMaxLen
                /\ l.round_num < NudgeRounds
                /\ l.has_tools
             THEN NextRound([l1 EXCEPT !.conversation =
                     @ \o <<ChatMessage("assistant", "response", response, << >>), Nudge>>])
             ELSE [l1 EXCEPT !.pc = "returned",
                             !.result = [returned |-> TRUE,
                                         content |-> final_content,
                                         rounds_used |-> l.round_num + 1,
                                         finished |-> TRUE]]
        ELSE [l1 EXCEPT !.pc = "tools", !.tool_calls = tool_calls.calls,
                        !.round_results = << >>]

\* a mutant: the calls of a round are not kept for the response
AfterTool_forgets(l, tc, result) ==
    LET l1 == [l EXCEPT !.tool_calls = Tail(@),
                        !.round_results = Append(@, ToolResult(tc.name, result)),
                        !.all_tool_results = Append(@, ToolResult(tc.name, result))]
    IN  IF l1.tool_calls # << >> THEN l1
        ELSE NextRound([l1 EXCEPT !.conversation =
                 @ \o <<ChatMessage("assistant", "response", l.response, << >>),
                        ChatMessage("user", "tool_results", << >>, l1.round_results)>>])

\* a mutant: the newest result is put in front of the earlier ones
AfterTool_infront(l, tc, result) ==
    LET l1 == [l EXCEPT !.tool_calls = Tail(@),
                        !.round_results = Append(@, ToolResult(tc.name, result)),
                        !.all_tool_calls = Append(@, tc),
                        !.all_tool_results = <<ToolResult(tc.name, result)>> \o @]
    IN  IF l1.tool_calls # << >> THEN l1
        ELSE NextRound([l1 EXCEPT !.conversation =
                 @ \o <<ChatMessage("assistant", "response", l.response, << >>),
                        ChatMessage("user", "tool_results", << >>, l1.round_results)>>])

\* one turn of "for tc in tool_calls", and what follows the last one
AfterTool(l, tc, result) ==
    LET l1 == [l EXCEPT !.tool_calls = Tail(@),
                        !.round_results = Append(@, ToolResult(tc.name, result)),
                        !.all_tool_calls = Append(@, tc),
                        !.all_tool_results = Append(@, ToolResult(tc.name, result))]
    IN  IF l1.tool_calls # << >> THEN l1
        ELSE NextRound([l1 EXCEPT !.conversation =
                 @ \o <<ChatMessage("assistant", "response", l.response, << >>),
                        ChatMessage("user", "tool_results", << >>, l1.round_results)>>])

\* ---------------------------------------------------------------------
\* Part 5: the session store and what a session request does with it.
\* A message is known by its role and the request it belongs to.
SessionMessage(role, r) == [role |-> role, of |-> r]
\* a file of the store as create and save write it: updated_at is the time
\* of writing, "recent" until the grace period of the pruning has passed
StoredSession(status, messages) ==
    [status |-> status, messages |-> messages, updated_at |-> "recent"]

\* the files of the store: "ok" a session of a known profile, "missing" no
\* file, "badprofile" a session whose profile_name is in no profile table
Statuses == {"ok", "missing", "badprofile"}
ValidSizes == {"small", "medium", "large"}
ModelSizes == {"small", "huge"}

\* a mutant: the new message is put in front of the list
add_message_infront(messages, role, r) == <<SessionMessage(role, r)>> \o messages

\* Session.add_message
add_message(messages, role, r) == Append(messages, SessionMessage(role, r))

\* title=None of a session that has none
NoTitle == [t |-> "none", len |-> 0, of |-> 0, tail |-> ""]

\* content[:50] + ("..." if len(content) > 50 else "")
TitleOf(content) ==
    IF content.len > TitleMaxLen THEN Ellipsis(Slice(content, TitleMaxLen))
    ELSE Slice(content, TitleMaxLen)

\* SessionStore.create: no messages, no title
SessionInit == [title |-> NoTitle, messages |-> << >>]

\* Session.add_message with the title: a message is known here by its role
\* and its content
Session_add_message(s, role, content) ==
    [messages |-> add_message(s.messages, role, content),
     title |-> IF s.title = NoTitle /\ role = "user" /\ content.len > 0
               THEN TitleOf(content) ELSE s.title]

\* SessionStore.save: the whole session replaces the file
save(st, s, messages) == [st EXCEPT ![s] = StoredSession("ok", messages)]

\* SessionStore.prune_empty(max_age_seconds): every file without messages
\* whose updated_at lies further back than max_age_seconds is unlinked
prune_empty(st) ==
    [s \in SessionIds |->
        IF /\ st[s].status # "missing"
           /\ Len(st[s].messages) = 0
           /\ st[s].updated_at = "long_ago"
        THEN StoredSession("missing", << >>)
        ELSE st[s]]

\* a mutant: every request passes the checks
validate_lenient(st, size, s) == "ok"

\* the checks at the head of session_chat / session_chat_stream, in their
\* order: model_size, store.get, profile
validate(st, size, s) ==
    IF size \notin ValidSizes THEN "400 Invalid model_size"
    ELSE IF st[s].status = "missing" THEN "404 Session not found"
    ELSE IF st[s].status = "badprofile" THEN "400 Unknown profile"
    ELSE "ok"

\* a mutant: the user message is left in the history
history_whole(messages) == messages

\* history = session.messages[:-1]
history(messages) == SubSeq(messages, 1, Len(messages) - 1)

\* conversation = list(conversation_history) + [ChatMessage("user", user_message)]
conversation_of(hist, r) == Append(hist, SessionMessage("user", r))

\* the state of all this when no request has touched it: every session
\* stored with no messages
StoreIdle ==
    /\ store = [s \in SessionIds |-> StoredSession("ok", << >>)]
    /\ session = [r \in Requests |-> << >>]
    /\ given = [r \in Requests |-> << >>]
    /\ model_size = [r \in Requests |-> "small"]
    /\ event_queue = [r \in Requests |-> << >>]
    /\ chunks = [r \in Requests |-> << >>]
    /\ the_session = SessionInit

\* ------------------------------------------------------------------ Init
ReqInit ==
    [ pc             |-> "new",
      kind           |-> "session",
      sid            |-> NoSession,
      queue_position |-> -1,
      age            |-> 0,
      queue_wait_ms  |-> 0,
      was_queued     |-> FALSE,
      acquired_lock  |-> FALSE,
      wfut           |-> "none",
      must_cancel    |-> FALSE,
      unwinding      |-> FALSE,
      rounds         |-> 0,
      chat           |-> "none",
      outcome        |-> "none" ]

Init ==
    /\ app = AppInit
    /\ generation_lock = LockInit
    /\ req = [r \in Requests |-> ReqInit]
    /\ ready = << >>
    /\ thread = [r \in Requests |-> "none"]
    /\ text = << >> /\ parsed = NotParsed
    /\ loop = LoopIdle /\ registry = RegistryInit /\ call = CallIdle
    /\ StoreIdle

\* ------------------------------------------------------------- scheduling
Pop == Tail(ready)
Push(q, r, t) == Append(q, Task(r, t))

\* the sessions earlier requests named; a new request names one of them or
\* the next fresh one
UsedSessions == {req[q].sid : q \in {x \in Requests : req[x].pc # "new"}}
MaxUsed == IF UsedSessions = {} THEN 0
           ELSE CHOOSE m \in UsedSessions : \A x \in UsedSessions : x <= m

\* Lock.release followed by _wake_up_first, on lock l after waiter removal
Released(l) == [l EXCEPT !.locked = FALSE]

\* the text of one request after the guard was released: the first pending
\* waiter gets its result and is scheduled
WakeFirst(l, rq, q) ==
    LET w == FirstToWake(l, rq)
    IN  IF w = 0 THEN [rq |-> rq, ready |-> q]
        ELSE [rq |-> [rq EXCEPT ![w].wfut = "done"], ready |-> Push(q, w, "h")]

\* a mutant: the waiting time is taken after the guard was acquired
EnterGuard_nowait(rq, r) ==
    [rq EXCEPT ![r].pc = "holding",
               ![r].acquired_lock = TRUE,
               ![r].queue_wait_ms = 0,
               ![r].was_queued = FALSE,
               ![r].wfut = "none",
               ![r].rounds = 1,
               ![r].chat = IF rq[r].kind = "stream" THEN "gen" ELSE "none"]

\* a mutant: acquired_lock is never set
EnterGuard_noflag(rq, r) ==
    LET wait == rq[r].age * TickMs
    IN  [rq EXCEPT ![r].pc = "holding",
                   ![r].queue_wait_ms = wait,
                   ![r].was_queued = (wait > QueuedThresholdMs),
                   ![r].wfut = "none",
                   ![r].rounds = 1,
                   ![r].chat = IF rq[r].kind = "stream" THEN "gen" ELSE "none"]

\* the body entered once the guard is held (server.py 744-767 / 869-897):
\* acquired_lock, queue statistics, set_generating(True) and the first
\* backend call of chat_async on a worker thread
EnterGuard(rq, r) ==
    LET wait == rq[r].age * TickMs
    IN  [rq EXCEPT ![r].pc = "holding",
                   ![r].acquired_lock = TRUE,
                   ![r].queue_wait_ms = wait,
                   ![r].was_queued = (wait > QueuedThresholdMs),
                   ![r].wfut = "none",
                   ![r].rounds = 1,
                   ![r].chat = IF rq[r].kind = "stream" THEN "gen" ELSE "none"]

\* ----------------------------------------------------------------- actions
\* a chat request reaches the server: its handler task becomes runnable
Arrive(r, k, s) ==
    /\ req[r].pc = "new"
    /\ r <= NReq
    /\ \A q \in 1..(r - 1) : req[q].pc # "new"
    /\ s <= MaxUsed + 1
    /\ req' = [req EXCEPT ![r].pc = "start", ![r].kind = k, ![r].sid = s]
    /\ ready' = Push(ready, r, "h")
    /\ UNCHANGED <<app, generation_lock, thread>>

\* a mutant: no yield between registering and the guard
StartSession_noyield(r) ==
    /\ IsHead(r, "h")
    /\ req[r].pc = "start"
    /\ req[r].kind \in {"session", "stream"}
    /\ LET a == add_to_queue(app, req[r].sid)
           rq == [req EXCEPT ![r].queue_position = a.position_map[req[r].sid],
                             ![r].age = 0]
       IN  IF LockFree(generation_lock, req)
           THEN /\ generation_lock' = [generation_lock EXCEPT !.locked = TRUE]
                /\ req' = EnterGuard(rq, r)
                /\ app' = set_generating(a, TRUE, req[r].sid)
                /\ thread' = [thread EXCEPT ![r] = "fresh"]
           ELSE /\ generation_lock' =
                      [generation_lock EXCEPT !.waiters = Append(@, r)]
                /\ req' = [rq EXCEPT ![r].pc = "waiting", ![r].wfut = "pending"]
                /\ app' = a
                /\ UNCHANGED thread
    /\ ready' = Pop

\* session_chat / session_chat_stream up to `await asyncio.sleep(0)`
StartSession(r) ==
    /\ IsHead(r, "h")
    /\ req[r].pc = "start"
    /\ req[r].kind \in {"session", "stream"}
    /\ LET a == add_to_queue(app, req[r].sid)
       IN  /\ app' = a
           /\ req' = [req EXCEPT ![r].pc = "yielded",
                                 ![r].queue_position = a.position_map[req[r].sid],
                                 ![r].age = 0]
    /\ ready' = Push(Pop, r, "h")
    /\ UNCHANGED <<generation_lock, thread>>

\* chat (POST /v1/chat): chat_async is awaited with no guard at all
StartStateless(r) ==
    /\ IsHead(r, "h")
    /\ req[r].pc = "start"
    /\ req[r].kind = "stateless"
    /\ req' = [req EXCEPT ![r].pc = "chatting", ![r].rounds = 1]
    /\ thread' = [thread EXCEPT ![r] = "fresh"]
    /\ ready' = Pop
    /\ UNCHANGED <<app, generation_lock>>

\* `async with asyncio.timeout(1800): async with generation_lock:` the
\* deadline is armed and Lock.acquire is called; it succeeds at once or the
\* task joins the waiters
TryAcquire(r) ==
    IF LockFree(generation_lock, req)
    THEN /\ generation_lock' = [generation_lock EXCEPT !.locked = TRUE]
         /\ req' = EnterGuard(req, r)
         /\ app' = set_generating(app, TRUE, req[r].sid)
         /\ thread' = [thread EXCEPT ![r] = "fresh"]
    ELSE /\ generation_lock' =
               [generation_lock EXCEPT !.waiters = Append(@, r)]
         /\ req' = [req EXCEPT ![r].pc = "waiting", ![r].wfut = "pending"]
         /\ UNCHANGED <<app, thread>>

\* session_chat after the yield
Resume(r) ==
    /\ IsHead(r, "h")
    /\ req[r].pc = "yielded"
    /\ req[r].kind = "session"
    /\ ready' = Pop
    /\ TryAcquire(r)

\* session_chat_stream after the yield: the handler returns the
\* StreamingResponse; event_generator starts in a later turn of the loop
ReturnStream(r) ==
    /\ IsHead(r, "h")
    /\ req[r].pc = "yielded"
    /\ req[r].kind = "stream"
    /\ req' = [req EXCEPT ![r].pc = "responding"]
    /\ ready' = Push(Pop, r, "h")
    /\ UNCHANGED <<app, generation_lock, thread>>

\* event_generator runs up to its first suspension
StreamBegin(r) ==
    /\ IsHead(r, "h")
    /\ req[r].pc = "responding"
    /\ ready' = Pop
    /\ TryAcquire(r)

\* a waiter whose future got its result takes the guard
AcquireAfterWait(r) ==
    /\ IsHead(r, "h")
    /\ req[r].pc = "waiting"
    /\ ~req[r].must_cancel
    /\ ready' = Pop
    /\ generation_lock' = [locked |-> TRUE,
                            waiters |-> SeqRemove(generation_lock.waiters, r)]
    /\ req' = EnterGuard(req, r)
    /\ app' = set_generating(app, TRUE, req[r].sid)
    /\ thread' = [thread EXCEPT ![r] = "fresh"]

\* ------------------------------------------------- backend worker threads
\* model.generate returns (res = "returned", after more than 10 ms) or
\* raises (res = "raised", possibly at once) on its worker thread; the task
\* awaiting it is scheduled unless its await was cancelled
Awaiting(r) ==
    CASE req[r].kind = "stream"    -> req[r].chat = "gen"
      [] req[r].kind = "session"   -> req[r].pc = "holding" /\ ~req[r].must_cancel
      [] req[r].kind = "stateless" -> req[r].pc = "chatting"

ThreadDone(r, res) ==
    /\ thread[r] \in {"fresh", "aged"}
    /\ res = "returned" => thread[r] = "aged"
    /\ IF Awaiting(r)
       THEN /\ thread' = [thread EXCEPT ![r] = res]
            /\ ready' = Push(ready, r, IF req[r].kind = "stream" THEN "c" ELSE "h")
       ELSE /\ thread' = [thread EXCEPT ![r] = "none"]
            /\ UNCHANGED ready
    /\ UNCHANGED <<app, generation_lock, req>>

\* a mutant: the `finally` forgets remove_from_queue
Cleanup_noremove(r, out, q) ==
    LET l  == Released(generation_lock)
        rq == [req EXCEPT ![r].pc = "done", ![r].outcome = out,
                          ![r].must_cancel = FALSE, ![r].age = 0,
                          ![r].unwinding = FALSE,
                          ![r].rounds = IF req[r].chat = "gen" THEN @ ELSE 0,
                          ![r].chat = IF @ = "gen" THEN @ ELSE "none"]
        w  == WakeFirst(l, rq, q)
    IN  /\ app' = set_generating(app, FALSE, NoSession)
        /\ generation_lock' = l
        /\ req' = w.rq
        /\ ready' = w.ready

\* the `finally` of the guarded body and the exit of `async with lock`:
\* set_generating(False), remove_from_queue, Lock.release
Cleanup(r, out, q) ==
    LET l  == Released(generation_lock)
        rq == [req EXCEPT ![r].pc = "done", ![r].outcome = out,
                          ![r].must_cancel = FALSE, ![r].age = 0,
                          ![r].unwinding = FALSE,
                          ![r].rounds = IF req[r].chat = "gen" THEN @ ELSE 0,
                          ![r].chat = IF @ = "gen" THEN @ ELSE "none"]
        w  == WakeFirst(l, rq, q)
    IN  /\ app' = remove_from_queue(set_generating(app, FALSE, NoSession),
                                    req[r].sid)
        /\ generation_lock' = l
        /\ req' = w.rq
        /\ ready' = w.ready

\* session_chat: chat_async goes on after a backend call returned: another
\* round (tool calls or a nudge) while rounds are left, or the final answer,
\* which is stored and returned
ContinueSession(r, more) ==
    /\ IsHead(r, "h")
    /\ req[r].pc = "holding"
    /\ req[r].kind = "session"
    /\ ~req[r].must_cancel
    /\ thread[r] = "returned"
    /\ IF more /\ req[r].rounds < MaxRounds
       THEN /\ req' = [req EXCEPT ![r].rounds = @ + 1]
            /\ thread' = [thread EXCEPT ![r] = "fresh"]
            /\ ready' = Pop
            /\ UNCHANGED <<app, generation_lock>>
       ELSE /\ Cleanup(r, "ok", Pop)
            /\ thread' = [thread EXCEPT ![r] = "none"]

\* session_chat: the backend call raised; the exception leaves the handler
\* through the `finally`
FailSession(r) ==
    /\ IsHead(r, "h")
    /\ req[r].pc = "holding"
    /\ req[r].kind = "session"
    /\ ~req[r].must_cancel
    /\ thread[r] = "raised"
    /\ Cleanup(r, "error", Pop)
    /\ thread' = [thread EXCEPT ![r] = "none"]

\* chat_task of the stream: chat_async goes on after a backend call; when
\* it ends the polling generator is scheduled, if it is still there
ContinueChatTask(r, more) ==
    /\ IsHead(r, "c")
    /\ req[r].chat = "gen"
    /\ thread[r] \in {"returned", "raised"}
    /\ IF thread[r] = "returned" /\ more /\ req[r].rounds < MaxRounds
       THEN /\ req' = [req EXCEPT ![r].rounds = @ + 1]
            /\ thread' = [thread EXCEPT ![r] = "fresh"]
            /\ ready' = Pop
       ELSE /\ req' = [req EXCEPT
                          ![r].chat = IF req[r].pc = "done" THEN "none"
                                      ELSE IF thread[r] = "raised" THEN "raised"
                                      ELSE "finished",
                          ![r].rounds = IF req[r].pc = "done" THEN 0 ELSE @]
            /\ thread' = [thread EXCEPT ![r] = "none"]
            /\ ready' = IF req[r].pc = "holding" /\ ~InReady(r, "h")
                        THEN Push(Pop, r, "h") ELSE Pop
    /\ UNCHANGED <<app, generation_lock>>

\* event_generator: chat_task is done; the assistant message is stored and
\* the complete event is yielded while the guard is still held; the
\* response sends the chunk and asks the generator for the next one
YieldComplete(r) ==
    /\ IsHead(r, "h")
    /\ req[r].pc = "holding"
    /\ req[r].kind = "stream"
    /\ ~req[r].must_cancel
    /\ req[r].chat = "finished"
    /\ req' = [req EXCEPT ![r].pc = "sent"]
    /\ ready' = Push(Pop, r, "h")
    /\ UNCHANGED <<app, generation_lock, thread>>

\* event_generator resumed after the complete event: `finally`, lock exit
FinishStream(r) ==
    /\ IsHead(r, "h")
    /\ req[r].pc = "sent"
    /\ Cleanup(r, "ok", Pop)
    /\ UNCHANGED thread

\* event_generator: `await chat_task` re-raises the error of the chat;
\* `finally`, then `except Exception` yields the error event
FailStream(r) ==
    /\ IsHead(r, "h")
    /\ req[r].pc = "holding"
    /\ req[r].kind = "stream"
    /\ ~req[r].must_cancel
    /\ req[r].chat = "raised"
    /\ Cleanup(r, "error", Pop)
    /\ UNCHANGED thread

\* chat: chat_async goes on; the response (or the exception) is returned
ContinueStateless(r, more) ==
    /\ IsHead(r, "h")
    /\ req[r].pc = "chatting"
    /\ thread[r] \in {"returned", "raised"}
    /\ IF thread[r] = "returned" /\ more /\ req[r].rounds < MaxRounds
       THEN /\ req' = [req EXCEPT ![r].rounds = @ + 1]
            /\ thread' = [thread EXCEPT ![r] = "fresh"]
       ELSE /\ req' = [req EXCEPT ![r].pc = "done", ![r].rounds = 0,
                                     ![r].outcome =
                          IF thread[r] = "raised" THEN "error" ELSE "ok"]
            /\ thread' = [thread EXCEPT ![r] = "none"]
    /\ ready' = Pop
    /\ UNCHANGED <<app, generation_lock>>

\* ---------------------------------------------------------------- timeouts
\* The timers of the loop fire in the order of their deadlines, and a
\* deadline is armed in the turn in which Lock.acquire is called: the holder
\* of the guard armed its deadline before every waiter that is still
\* pending, and the waiters armed theirs in the order they wait in.
Before(q, r, waiters) ==
    \E i, j \in 1..Len(waiters) : i < j /\ waiters[i] = q /\ waiters[j] = r

EarlierDeadlinePending(r) ==
    \E q \in Requests \ {r} :
        /\ ~req[q].must_cancel
        /\ \/ req[q].pc = "holding" /\ req[r].pc = "waiting"
           \/ /\ req[q].pc = "waiting" /\ req[r].pc = "waiting"
              /\ Before(q, r, generation_lock.waiters)

\* the deadline of asyncio.timeout fires: Task.cancel. A pending future of
\* the awaited operation is cancelled and the task scheduled; a task that is
\* already scheduled gets the CancelledError thrown in when it runs
Timeout(r) ==
    /\ req[r].pc \in {"waiting", "holding"}
    /\ ~req[r].must_cancel
    /\ req[r].age >= DeadlineTicks
    /\ ~EarlierDeadlinePending(r)
    /\ req' = [req EXCEPT ![r].must_cancel = TRUE,
                          ![r].wfut = IF @ = "pending" THEN "cancelled" ELSE @]
    /\ ready' = IF InReady(r, "h") THEN ready ELSE Push(ready, r, "h")
    /\ UNCHANGED <<app, generation_lock, thread>>

\* CancelledError inside Lock.acquire: the waiter leaves the waiters, hands
\* a free lock on, and the handler reports that it timed out waiting
TimeoutWaiting(r) ==
    /\ IsHead(r, "h")
    /\ req[r].pc = "waiting"
    /\ req[r].must_cancel
    /\ LET l  == [generation_lock EXCEPT !.waiters = SeqRemove(@, r)]
           rq == [req EXCEPT ![r].pc = "done", ![r].wfut = "none",
                             ![r].must_cancel = FALSE, ![r].age = 0,
                             ![r].outcome =
                                 IF ~req[r].acquired_lock THEN "timed_out_waiting" ELSE "generation_timed_out"]
           w  == IF ~l.locked THEN WakeFirst(l, rq, Pop)
                 ELSE [rq |-> rq, ready |-> Pop]
       IN  /\ generation_lock' = l
           /\ req' = w.rq
           /\ ready' = w.ready
           /\ app' = IF ~req[r].acquired_lock
                     THEN remove_from_queue(app, req[r].sid) ELSE app
    /\ UNCHANGED thread

\* CancelledError inside the guarded body: `finally`, lock exit, and the
\* handler reports that the generation timed out; the worker thread of a
\* running backend call is not stopped. The generator of a stream is
\* suspended inside asyncio.wait_for(event_queue.get(), 0.1): wait_for
\* either lets the CancelledError through at once or (late) first cancels
\* its inner task and waits for it, which takes further turns of the loop
\* in which the guard is still held
TimeoutHolding(r, late) ==
    /\ IsHead(r, "h")
    /\ req[r].pc = "holding"
    /\ req[r].must_cancel
    /\ IF late /\ req[r].kind = "stream" /\ ~req[r].unwinding
       THEN /\ req' = [req EXCEPT ![r].unwinding = TRUE]
            /\ ready' = Push(Pop, r, "h")
            /\ UNCHANGED <<app, generation_lock, thread>>
       ELSE /\ Cleanup(r, IF ~req[r].acquired_lock THEN "timed_out_waiting" ELSE "generation_timed_out", Pop)
            /\ thread' = [thread EXCEPT ![r] =
                             IF req[r].kind = "session" /\ @ \in {"returned", "raised"}
                             THEN "none" ELSE @]

\* time passes while the loop has nothing to run: one tick is far longer
\* than a turn of the loop
Counting(r) == req[r].pc \in {"yielded", "responding", "waiting", "holding", "sent"}

Tick ==
    /\ ready = << >>
    /\ \/ \E r \in Requests : thread[r] = "fresh"
       \/ \E r \in Requests : Counting(r) /\ req[r].age < DeadlineTicks
    /\ thread' = [r \in Requests |-> IF thread[r] = "fresh" THEN "aged" ELSE thread[r]]
    /\ req' = [r \in Requests |->
                 IF Counting(r) /\ req[r].age < DeadlineTicks
                 THEN [req[r] EXCEPT !.age = @ + 1] ELSE req[r]]
    /\ UNCHANGED <<app, generation_lock, ready>>

\* GET /generation/status is answered in one turn of the loop
GetStatus ==
    /\ app' = get_generation_status(app).app
    /\ UNCHANGED <<generation_lock, req, ready, thread>>

Next ==
    \/ \E r \in Requests, k \in Kinds, s \in SessionIds : Arrive(r, k, s) /\ UNCHANGED <<pvars, lvars, svars, tvars>>
    \/ GetStatus /\ UNCHANGED <<pvars, lvars, svars, tvars>>
    \/ \E r \in Requests : StartSession(r) /\ UNCHANGED <<pvars, lvars, svars, tvars>>
    \/ \E r \in Requests : StartStateless(r) /\ UNCHANGED <<pvars, lvars, svars, tvars>>
    \/ \E r \in Requests : Resume(r) /\ UNCHANGED <<pvars, lvars, svars, tvars>>
    \/ \E r \in Requests : ReturnStream(r) /\ UNCHANGED <<pvars, lvars, svars, tvars>>
    \/ \E r \in Requests : StreamBegin(r) /\ UNCHANGED <<pvars, lvars, svars, tvars>>
    \/ \E r \in Requests : AcquireAfterWait(r) /\ UNCHANGED <<pvars, lvars, svars, tvars>>
    \/ \E r \in Requests, res \in {"returned", "raised"} : ThreadDone(r, res) /\ UNCHANGED <<pvars, lvars, svars, tvars>>
    \/ \E r \in Requests, more \in BOOLEAN : ContinueSession(r, more) /\ UNCHANGED <<pvars, lvars, svars, tvars>>
    \/ \E r \in Requests : FailSession(r) /\ UNCHANGED <<pvars, lvars, svars, tvars>>
    \/ \E r \in Requests, more \in BOOLEAN : ContinueChatTask(r, more) /\ UNCHANGED <<pvars, lvars, svars, tvars>>
    \/ \E r \in Requests : YieldComplete(r) /\ UNCHANGED <<pvars, lvars, svars, tvars>>
    \/ \E r \in Requests : FinishStream(r) /\ UNCHANGED <<pvars, lvars, svars, tvars>>
    \/ \E r \in Requests : FailStream(r) /\ UNCHANGED <<pvars, lvars, svars, tvars>>
    \/ \E r \in Requests, more \in BOOLEAN : ContinueStateless(r, more) /\ UNCHANGED <<pvars, lvars, svars, tvars>>
    \/ \E r \in Requests : Timeout(r) /\ UNCHANGED <<pvars, lvars, svars, tvars>>
    \/ \E r \in Requests : TimeoutWaiting(r) /\ UNCHANGED <<pvars, lvars, svars, tvars>>
    \/ \E r \in Requests, late \in BOOLEAN : TimeoutHolding(r, late) /\ UNCHANGED <<pvars, lvars, svars, tvars>>
    \/ Tick /\ UNCHANGED <<pvars, lvars, svars, tvars>>

Spec == Init /\ [][Next]_vars

\* ---------------------------------------------------------------------
\* The scenario of test_concurrent_requests_get_unique_queue_positions:
\* NConcurrent session chat requests for distinct sessions are runnable at
\* the same instant on an idle server.
InitThree ==
    /\ app = AppInit
    /\ generation_lock = LockInit
    /\ req = [r \in Requests |->
                IF r <= NConcurrent
                THEN [ReqInit EXCEPT !.pc = "start", !.sid = r]
                ELSE ReqInit]
    /\ ready = [i \in 1..NConcurrent |-> Task(i, "h")]
    /\ thread = [r \in Requests |-> "none"]
    /\ text = << >> /\ parsed = NotParsed
    /\ loop = LoopIdle /\ registry = RegistryInit /\ call = CallIdle
    /\ StoreIdle

NextThree ==
    \/ \E r \in Requests : StartSession(r) /\ UNCHANGED <<pvars, lvars, svars, tvars>>
    \/ \E r \in Requests : Resume(r) /\ UNCHANGED <<pvars, lvars, svars, tvars>>
    \/ \E r \in Requests : AcquireAfterWait(r) /\ UNCHANGED <<pvars, lvars, svars, tvars>>
    \/ \E r \in Requests, res \in {"returned", "raised"} : ThreadDone(r, res) /\ UNCHANGED <<pvars, lvars, svars, tvars>>
    \/ \E r \in Requests, more \in BOOLEAN : ContinueSession(r, more) /\ UNCHANGED <<pvars, lvars, svars, tvars>>
    \/ \E r \in Requests : FailSession(r) /\ UNCHANGED <<pvars, lvars, svars, tvars>>
    \/ \E r \in Requests : Timeout(r) /\ UNCHANGED <<pvars, lvars, svars, tvars>>
    \/ \E r \in Requests : TimeoutWaiting(r) /\ UNCHANGED <<pvars, lvars, svars, tvars>>
    \/ \E r \in Requests, late \in BOOLEAN : TimeoutHolding(r, late) /\ UNCHANGED <<pvars, lvars, svars, tvars>>
    \/ Tick /\ UNCHANGED <<pvars, lvars, svars, tvars>>

SpecThree == InitThree /\ [][NextThree]_vars

\* ---------------------------------------------------------------------
\* NConcurrent requests of the two session endpoints, for any sessions, whose
\* handlers are all runnable at the same instant on an idle server.
InitBurst ==
    /\ app = AppInit
    /\ generation_lock = LockInit
    /\ \E k \in [1..NConcurrent -> {"session", "stream"}], s \in [1..NConcurrent -> SessionIds] :
          /\ \A r \in 1..NConcurrent : s[r] <= r
          /\ req = [r \in Requests |->
                      IF r <= NConcurrent
                      THEN [ReqInit EXCEPT !.pc = "start", !.kind = k[r], !.sid = s[r]]
                      ELSE ReqInit]
    /\ ready = [i \in 1..NConcurrent |-> Task(i, "h")]
    /\ thread = [r \in Requests |-> "none"]
    /\ text = << >> /\ parsed = NotParsed
    /\ loop = LoopIdle /\ registry = RegistryInit /\ call = CallIdle
    /\ StoreIdle

NextBurst ==
    \/ \E r \in Requests : StartSession(r) /\ UNCHANGED <<pvars, lvars, svars, tvars>>
    \/ \E r \in Requests : Resume(r) /\ UNCHANGED <<pvars, lvars, svars, tvars>>
    \/ \E r \in Requests : ReturnStream(r) /\ UNCHANGED <<pvars, lvars, svars, tvars>>
    \/ \E r \in Requests : StreamBegin(r) /\ UNCHANGED <<pvars, lvars, svars, tvars>>
    \/ \E r \in Requests : AcquireAfterWait(r) /\ UNCHANGED <<pvars, lvars, svars, tvars>>
    \/ \E r \in Requests, res \in {"returned", "raised"} : ThreadDone(r, res) /\ UNCHANGED <<pvars, lvars, svars, tvars>>
    \/ \E r \in Requests, more \in BOOLEAN : ContinueSession(r, more) /\ UNCHANGED <<pvars, lvars, svars, tvars>>
    \/ \E r \in Requests : FailSession(r) /\ UNCHANGED <<pvars, lvars, svars, tvars>>
    \/ \E r \in Requests, more \in BOOLEAN : ContinueChatTask(r, more) /\ UNCHANGED <<pvars, lvars, svars, tvars>>
    \/ \E r \in Requests : YieldComplete(r) /\ UNCHANGED <<pvars, lvars, svars, tvars>>
    \/ \E r \in Requests : FinishStream(r) /\ UNCHANGED <<pvars, lvars, svars, tvars>>
    \/ \E r \in Requests : FailStream(r) /\ UNCHANGED <<pvars, lvars, svars, tvars>>
    \/ \E r \in Requests : Timeout(r) /\ UNCHANGED <<pvars, lvars, svars, tvars>>
    \/ \E r \in Requests : TimeoutWaiting(r) /\ UNCHANGED <<pvars, lvars, svars, tvars>>
    \/ \E r \in Requests, late \in BOOLEAN : TimeoutHolding(r, late) /\ UNCHANGED <<pvars, lvars, svars, tvars>>
    \/ Tick /\ UNCHANGED <<pvars, lvars, svars, tvars>>

SpecBurst == InitBurst /\ [][NextBurst]_vars

\* ---------------------------------------------------------------------
\* The session endpoints together with the store and the event stream:
\* the requests of Spec, each step extended by what the handler does to
\* the session, the store and the stream in that step.
InitServe ==
    /\ app = AppInit
    /\ generation_lock = LockInit
    /\ req = [r \in Requests |-> ReqInit]
    /\ ready = << >>
    /\ thread = [r \in Requests |-> "none"]
    /\ text = << >> /\ parsed = NotParsed
    /\ loop = LoopIdle /\ registry = RegistryInit /\ call = CallIdle
    /\ store \in [SessionIds -> {StoredSession(st, << >>) : st \in Statuses}]
    /\ \A s \in SessionIds : s > NReq => store[s].status = "ok"
    /\ session = [r \in Requests |-> << >>]
    /\ given = [r \in Requests |-> << >>]
    /\ model_size = [r \in Requests |-> "small"]
    /\ event_queue = [r \in Requests |-> << >>]
    /\ chunks = [r \in Requests |-> << >>]
    /\ the_session = SessionInit

\* the events chat_async puts at the head of round n
RoundEvents(n) == <<Event("round_start", n, ""), Event("generating", n, "")>>
Complete == Event("complete", 0, "")
Error == Event("error", 0, "")

ServeArrive(r, k, s, size) ==
    /\ Arrive(r, k, s)
    /\ model_size' = [model_size EXCEPT ![r] = size]
    /\ UNCHANGED <<store, session, given, event_queue, chunks>>

\* a check at the head of the handler fails: HTTPException, nothing else
Reject(r) ==
    /\ IsHead(r, "h")
    /\ req[r].pc = "start"
    /\ req[r].kind \in {"session", "stream"}
    /\ validate(store, model_size[r], req[r].sid) # "ok"
    /\ req' = [req EXCEPT ![r].pc = "done",
                          ![r].outcome = validate(store, model_size[r], req[r].sid)]
    /\ ready' = Pop
    /\ UNCHANGED <<app, generation_lock, thread, svars>>

\* a mutant: the session is saved as soon as it has the user message
ServeStartSession_saves(r) ==
    /\ req[r].pc = "start"
    /\ validate(store, model_size[r], req[r].sid) = "ok"
    /\ StartSession(r)
    /\ session' = [session EXCEPT ![r] = add_message(store[req[r].sid].messages, "user", r)]
    /\ store' = save(store, req[r].sid, add_message(store[req[r].sid].messages, "user", r))
    /\ UNCHANGED <<given, model_size, event_queue, chunks>>

\* store.get, session.add_message(user), add_to_queue, sleep(0)
ServeStartSession(r) ==
    /\ req[r].pc = "start"
    /\ validate(store, model_size[r], req[r].sid) = "ok"
    /\ StartSession(r)
    /\ session' = [session EXCEPT ![r] = add_message(store[req[r].sid].messages, "user", r)]
    /\ UNCHANGED <<store, given, model_size, event_queue, chunks>>

\* the head of the guarded body: history, the conversation chat_async
\* builds from it, and for a stream chat_task with the events of round 1
EnterChat(r) ==
    IF req[r].pc # "holding" /\ req'[r].pc = "holding"
    THEN /\ given' = [given EXCEPT ![r] = conversation_of(history(session[r]), r)]
         /\ event_queue' = [event_queue EXCEPT ![r] =
                               IF req[r].kind = "stream" THEN RoundEvents(1) ELSE @]
    ELSE UNCHANGED <<given, event_queue>>

ServeResume(r) ==
    /\ Resume(r) /\ EnterChat(r)
    /\ UNCHANGED <<store, session, model_size, chunks>>

ServeStreamBegin(r) ==
    /\ StreamBegin(r) /\ EnterChat(r)
    /\ UNCHANGED <<store, session, model_size, chunks>>

ServeAcquireAfterWait(r) ==
    /\ AcquireAfterWait(r) /\ EnterChat(r)
    /\ UNCHANGED <<store, session, model_size, chunks>>

\* session_chat: when chat_async returned, session.add_message(assistant)
\* and store.save(session) before the `finally`
ServeContinueSession(r, more) ==
    /\ ContinueSession(r, more)
    /\ IF req'[r].pc = "done"
       THEN /\ session' = [session EXCEPT ![r] = add_message(@, "assistant", r)]
            /\ store' = save(store, req[r].sid, add_message(session[r], "assistant", r))
       ELSE UNCHANGED <<store, session>>
    /\ UNCHANGED <<given, model_size, event_queue, chunks>>

\* chat_task: the next round puts its events
ServeContinueChatTask(r, more) ==
    /\ ContinueChatTask(r, more)
    /\ event_queue' = [event_queue EXCEPT ![r] =
                          IF req'[r].rounds > req[r].rounds
                          THEN @ \o RoundEvents(req'[r].rounds) ELSE @]
    /\ UNCHANGED <<store, session, given, model_size, chunks>>

\* event_generator takes an event from the queue and yields it: woken by
\* the put while it polls, or draining the queue once chat_task is done
YieldEvent(r) ==
    /\ req[r].kind = "stream"
    /\ req[r].pc = "holding"
    /\ ~req[r].must_cancel
    /\ event_queue[r] # << >>
    /\ IsHead(r, "h") \/ ~InReady(r, "h")
    /\ chunks' = [chunks EXCEPT ![r] = Append(@, Head(event_queue[r]))]
    /\ event_queue' = [event_queue EXCEPT ![r] = Tail(@)]
    /\ ready' = IF IsHead(r, "h") THEN Push(Pop, r, "h") ELSE ready
    /\ UNCHANGED <<app, generation_lock, req, thread, store, session, given, model_size>>

\* event_generator: the queue is drained, chat_task gave its result:
\* add_message(assistant), store.save, yield complete
ServeYieldComplete(r) ==
    /\ event_queue[r] = << >>
    /\ YieldComplete(r)
    /\ session' = [session EXCEPT ![r] = add_message(@, "assistant", r)]
    /\ store' = save(store, req[r].sid, add_message(session[r], "assistant", r))
    /\ chunks' = [chunks EXCEPT ![r] = Append(@, Complete)]
    /\ UNCHANGED <<given, model_size, event_queue>>

\* a mutant: the error of the chat ends the stream without an event
ServeFailStream_silent(r) ==
    /\ event_queue[r] = << >>
    /\ FailStream(r)
    /\ UNCHANGED <<store, session, given, model_size, event_queue, chunks>>

\* event_generator: the queue is drained, `await chat_task` raises,
\* `except Exception` yields the error event
ServeFailStream(r) ==
    /\ event_queue[r] = << >>
    /\ FailStream(r)
    /\ chunks' = [chunks EXCEPT ![r] = Append(@, Error)]
    /\ UNCHANGED <<store, session, given, model_size, event_queue>>

\* `except asyncio.TimeoutError` of a stream yields the error event
ServeTimeoutWaiting(r) ==
    /\ TimeoutWaiting(r)
    /\ chunks' = [chunks EXCEPT ![r] = IF req[r].kind = "stream" THEN Append(@, Error) ELSE @]
    /\ UNCHANGED <<store, session, given, model_size, event_queue>>

ServeTimeoutHolding(r, late) ==
    /\ TimeoutHolding(r, late)
    /\ chunks' = [chunks EXCEPT ![r] =
                     IF req[r].kind = "stream" /\ req'[r].pc = "done"
                     THEN Append(@, Error) ELSE @]
    /\ UNCHANGED <<store, session, given, model_size, event_queue>>

\* the client of a stream goes away: StreamingResponse cancels the task
\* that runs event_generator, and the CancelledError is thrown in at the
\* await the generator is suspended in. No handler of event_generator
\* catches it: inside Lock.acquire the waiter leaves the lock's waiters,
\* inside the guarded body the `finally` and the lock exit run
WithoutTask(q, r) == SelectSeq(q, LAMBDA t : t # Task(r, "h"))

Disconnect(r) ==
    /\ req[r].kind = "stream"
    /\ ~req[r].must_cancel
    /\ \/ /\ req[r].pc = "waiting"
          /\ LET l  == [generation_lock EXCEPT !.waiters = SeqRemove(@, r)]
                 rq == [req EXCEPT ![r].pc = "done", ![r].wfut = "none",
                                   ![r].age = 0, ![r].outcome = "disconnected"]
                 w  == IF ~l.locked THEN WakeFirst(l, rq, WithoutTask(ready, r))
                       ELSE [rq |-> rq, ready |-> WithoutTask(ready, r)]
             IN  /\ generation_lock' = l
                 /\ req' = w.rq
                 /\ ready' = w.ready
          /\ UNCHANGED app
       \/ /\ req[r].pc = "holding"
          /\ Cleanup(r, "disconnected", WithoutTask(ready, r))
    /\ UNCHANGED <<thread, svars>>

NextServe ==
    \/ \E r \in Requests, k \in Kinds, s \in SessionIds, size \in ModelSizes :
           ServeArrive(r, k, s, size) /\ UNCHANGED <<pvars, lvars, tvars>>
    \/ \E r \in Requests : Reject(r) /\ UNCHANGED <<pvars, lvars, tvars>>
    \/ \E r \in Requests : ServeStartSession(r) /\ UNCHANGED <<pvars, lvars, tvars>>
    \/ \E r \in Requests : StartStateless(r) /\ UNCHANGED <<pvars, lvars, svars, tvars>>
    \/ \E r \in Requests : ServeResume(r) /\ UNCHANGED <<pvars, lvars, tvars>>
    \/ \E r \in Requests : ReturnStream(r) /\ UNCHANGED <<pvars, lvars, svars, tvars>>
    \/ \E r \in Requests : ServeStreamBegin(r) /\ UNCHANGED <<pvars, lvars, tvars>>
    \/ \E r \in Requests : ServeAcquireAfterWait(r) /\ UNCHANGED <<pvars, lvars, tvars>>
    \/ \E r \in Requests, res \in {"returned", "raised"} : ThreadDone(r, res) /\ UNCHANGED <<pvars, lvars, svars, tvars>>
    \/ \E r \in Requests, more \in BOOLEAN : ServeContinueSession(r, more) /\ UNCHANGED <<pvars, lvars, tvars>>
    \/ \E r \in Requests : FailSession(r) /\ UNCHANGED <<pvars, lvars, svars, tvars>>
    \/ \E r \in Requests, more \in BOOLEAN : ServeContinueChatTask(r, more) /\ UNCHANGED <<pvars, lvars, tvars>>
    \/ \E r \in Requests : YieldEvent(r) /\ UNCHANGED <<pvars, lvars, tvars>>
    \/ \E r \in Requests : ServeYieldComplete(r) /\ UNCHANGED <<pvars, lvars, tvars>>
    \/ \E r \in Requests : FinishStream(r) /\ UNCHANGED <<pvars, lvars, svars, tvars>>
    \/ \E r \in Requests : ServeFailStream(r) /\ UNCHANGED <<pvars, lvars, tvars>>
    \/ \E r \in Requests, more \in BOOLEAN : ContinueStateless(r, more) /\ UNCHANGED <<pvars, lvars, svars, tvars>>
    \/ \E r \in Requests : Timeout(r) /\ UNCHANGED <<pvars, lvars, svars, tvars>>
    \/ \E r \in Requests : ServeTimeoutWaiting(r) /\ UNCHANGED <<pvars, lvars, tvars>>
    \/ \E r \in Requests, late \in BOOLEAN : ServeTimeoutHolding(r, late) /\ UNCHANGED <<pvars, lvars, tvars>>
    \/ \E r \in Requests : Disconnect(r) /\ UNCHANGED <<pvars, lvars, tvars>>
    \/ Tick /\ UNCHANGED <<pvars, lvars, svars, tvars>>

SpecServe == InitServe /\ [][NextServe]_vars

\* ---------------------------------------------------------------------
\* The session endpoints with GET /sessions, which prunes the store, and
\* the passing of the grace period: session and stream requests on the
\* sessions PruneSessions, which exist from the start
PruneSessions == {1, 2}

InitPrune ==
    /\ app = AppInit
    /\ generation_lock = LockInit
    /\ req = [r \in Requests |-> ReqInit]
    /\ ready = << >>
    /\ thread = [r \in Requests |-> "none"]
    /\ text = << >> /\ parsed = NotParsed
    /\ loop = LoopIdle /\ registry = RegistryInit /\ call = CallIdle
    /\ store = [s \in SessionIds |->
                   StoredSession(IF s \in PruneSessions THEN "ok" ELSE "missing", << >>)]
    /\ session = [r \in Requests |-> << >>]
    /\ given = [r \in Requests |-> << >>]
    /\ model_size = [r \in Requests |-> "small"]
    /\ event_queue = [r \in Requests |-> << >>]
    /\ chunks = [r \in Requests |-> << >>]
    /\ the_session = SessionInit

\* more than the grace period of list_sessions passes with the loop idle
GracePasses ==
    /\ ready = << >>
    /\ \E s \in SessionIds : store[s].status # "missing" /\ store[s].updated_at = "recent"
    /\ store' = [s \in SessionIds |->
                    IF store[s].status # "missing"
                    THEN [store[s] EXCEPT !.updated_at = "long_ago"] ELSE store[s]]
    /\ UNCHANGED <<qvars, session, given, model_size, event_queue, chunks>>

\* GET /sessions: store.prune_empty(max_age_seconds=60), then the summaries
list_sessions ==
    /\ store' = prune_empty(store)
    /\ UNCHANGED <<qvars, session, given, model_size, event_queue, chunks>>

NextPrune ==
    \/ \E r \in Requests, k \in {"session", "stream"}, s \in PruneSessions :
           ServeArrive(r, k, s, "small") /\ UNCHANGED <<pvars, lvars, tvars>>
    \/ \E r \in Requests : Reject(r) /\ UNCHANGED <<pvars, lvars, tvars>>
    \/ \E r \in Requests : ServeStartSession(r) /\ UNCHANGED <<pvars, lvars, tvars>>
    \/ \E r \in Requests : ServeResume(r) /\ UNCHANGED <<pvars, lvars, tvars>>
    \/ \E r \in Requests : ReturnStream(r) /\ UNCHANGED <<pvars, lvars, svars, tvars>>
    \/ \E r \in Requests : ServeStreamBegin(r) /\ UNCHANGED <<pvars, lvars, tvars>>
    \/ \E r \in Requests : ServeAcquireAfterWait(r) /\ UNCHANGED <<pvars, lvars, tvars>>
    \/ \E r \in Requests, res \in {"returned", "raised"} : ThreadDone(r, res) /\ UNCHANGED <<pvars, lvars, svars, tvars>>
    \/ \E r \in Requests, more \in BOOLEAN : ServeContinueSession(r, more) /\ UNCHANGED <<pvars, lvars, tvars>>
    \/ \E r \in Requests : FailSession(r) /\ UNCHANGED <<pvars, lvars, svars, tvars>>
    \/ \E r \in Requests, more \in BOOLEAN : ServeContinueChatTask(r, more) /\ UNCHANGED <<pvars, lvars, tvars>>
    \/ \E r \in Requests : YieldEvent(r) /\ UNCHANGED <<pvars, lvars, tvars>>
    \/ \E r \in Requests : ServeYieldComplete(r) /\ UNCHANGED <<pvars, lvars, tvars>>
    \/ \E r \in Requests : FinishStream(r) /\ UNCHANGED <<pvars, lvars, svars, tvars>>
    \/ \E r \in Requests : ServeFailStream(r) /\ UNCHANGED <<pvars, lvars, tvars>>
    \/ \E r \in Requests : Timeout(r) /\ UNCHANGED <<pvars, lvars, svars, tvars>>
    \/ \E r \in Requests : ServeTimeoutWaiting(r) /\ UNCHANGED <<pvars, lvars, tvars>>
    \/ \E r \in Requests, late \in BOOLEAN : ServeTimeoutHolding(r, late) /\ UNCHANGED <<pvars, lvars, tvars>>
    \/ Tick /\ UNCHANGED <<pvars, lvars, svars, tvars>>
    \/ GracePasses /\ UNCHANGED <<pvars, lvars, tvars>>
    \/ list_sessions /\ UNCHANGED <<pvars, lvars, tvars>>

SpecPrune == InitPrune /\ [][NextPrune]_vars

\* ---------------------------------------------------------------------
\* parse_tool_calls on the texts made of at most MaxBlocks of these pieces
Fragments ==
    {CallBlock("get_current_datetime", "empty"), CallBlock("web_search", "dict"),
     BadUnclosed, BadClosed, NoBrace, DeepBlock, Hello, <<WS>>, Thinking,
     SplitCall}

RECURSIVE TextsOf(_)
TextsOf(n) ==
    IF n = 0 THEN {<< >>}
    ELSE TextsOf(n - 1) \cup {t \o f : t \in TextsOf(n - 1), f \in Fragments}

InitParse ==
    /\ app = AppInit
    /\ generation_lock = LockInit
    /\ req = [r \in Requests |-> ReqInit]
    /\ ready = << >>
    /\ thread = [r \in Requests |-> "none"]
    /\ text \in TextsOf(MaxBlocks) /\ parsed = NotParsed
    /\ loop = LoopIdle /\ registry = RegistryInit /\ call = CallIdle
    /\ StoreIdle

Parse ==
    /\ ~parsed.done
    /\ parsed' = [parsed EXCEPT !.done = TRUE,
                                !.exc = parse_tool_calls(text).exc,
                                !.calls = parse_tool_calls(text).calls]
    /\ UNCHANGED <<text, qvars, lvars, svars, tvars>>

\* extract_final_response(text)
Extract ==
    /\ ~parsed.extracted
    /\ parsed' = [parsed EXCEPT !.extracted = TRUE,
                                !.content = extract_final_response(text)]
    /\ UNCHANGED <<text, qvars, lvars, svars, tvars>>

NextParse ==
    \/ Parse
    \/ Extract

SpecParse == InitParse /\ [][NextParse]_vars

\* ---------------------------------------------------------------------
\* One run of the conversation loop against a backend that may hand back
\* any of these responses in any round.
Responses ==
    {Hello, Thinking, Thinking \o LongText, Unclosed,
     CallBlock("get_current_datetime", "empty"),
     CallBlock("web_search", "dict"),
     CallBlock("nosuch", "dict") \o CallBlock("get_current_datetime", "empty"),
     CallBlock("nosuch", "null"),
     CallBlock("[x]", "empty"),
     BadUnclosed \o CallBlock("web_search", "dict")}

\* chat / chat_async up to the first backend call: the conversation is a
\* copy of the caller's list with the new user message at its end
StartChatWith(mode, has_tools, max_rounds, conversation_history) ==
    /\ loop.pc = "idle"
    /\ loop' = RoundStart([LoopIdle EXCEPT
                  !.pc = "generate", !.mode = mode, !.has_tools = has_tools,
                  !.max_rounds = max_rounds,
                  !.conversation_history = conversation_history,
                  !.conversation = Append(conversation_history,
                                          ChatMessage("user", "user_message", << >>, << >>))])
    /\ UNCHANGED <<registry, call, qvars, pvars, svars, tvars>>

\* a run without earlier messages
StartChat(mode, has_tools, max_rounds) == StartChatWith(mode, has_tools, max_rounds, << >>)

\* self._model.generate hands back response
Generate(response) ==
    /\ loop.pc = "generate"
    /\ loop' = AfterGenerate(loop, response)
    /\ UNCHANGED <<registry, call, qvars, pvars, svars, tvars>>

\* one turn of `for tc in tool_calls` on the first call that is left:
\* tool_start, the call through the registry, tool_end
ToolStep(l, reg, body, imports) ==
    LET tc == Head(l.tool_calls)
        r == IF l.mode = "async"
             THEN execute_async(reg, tc.name, tc.arguments, body, imports)
             ELSE execute(reg, tc.name, tc.arguments, body, imports)
        tool_start == Event("tool_start", l.round_num + 1, tc.name)
        tool_end == Event("tool_end", l.round_num + 1, tc.name)
    IN  IF l.mode = "async" /\ _truncate_args(tc.arguments).raised
        THEN [loop |-> [l EXCEPT !.pc = "raised", !.exc = "AttributeError"],
              registry |-> reg]
        ELSE IF r.raised
        THEN [loop |-> [emit(l, <<tool_start>>) EXCEPT !.pc = "raised", !.exc = r.exc],
              registry |-> reg]
        ELSE [loop |-> AfterTool(emit(l, <<tool_start, tool_end>>), tc, r.value),
              registry |-> r.registry]

\* the next tool call of the round
ExecTool(body, imports) ==
    /\ loop.pc = "tools"
    /\ loop' = ToolStep(loop, registry, body, imports).loop
    /\ registry' = ToolStep(loop, registry, body, imports).registry
    /\ UNCHANGED <<call, qvars, pvars, svars, tvars>>

NextLoop ==
    \/ \E mode \in {"sync", "async"}, has_tools \in BOOLEAN, m \in 1..MaxToolRounds :
           StartChat(mode, has_tools, m)
    \/ \E response \in Responses : Generate(response)
    \/ \E body \in {"ok", "raise"}, imports \in BOOLEAN : ExecTool(body, imports)

SpecLoop == Init /\ [][NextLoop]_vars

\* ---------------------------------------------------------------------
\* One run of the loop that starts from the earlier messages of a session
HistoryMessage(role, content) == ChatMessage(role, "history", <<Txt(content)>>, << >>)
Histories ==
    {<< >>,
     <<HistoryMessage("user", "q1"), HistoryMessage("assistant", "a1")>>,
     <<HistoryMessage("user", "q1"), HistoryMessage("assistant", "a1"),
       HistoryMessage("user", "q2"), HistoryMessage("assistant", "a2")>>}
HistoryResponses ==
    {Hello, Thinking, CallBlock("web_search", "dict"),
     CallBlock("web_search", "dict") \o CallBlock("nosuch", "dict")}

NextHistory ==
    \/ \E mode \in {"sync", "async"}, has_tools \in BOOLEAN, m \in 1..MaxToolRounds,
          conversation_history \in Histories :
           StartChatWith(mode, has_tools, m, conversation_history)
    \/ \E response \in HistoryResponses : Generate(response)
    \/ \E body \in {"ok", "raise"}, imports \in BOOLEAN : ExecTool(body, imports)

SpecHistory == Init /\ [][NextHistory]_vars

\* ---------------------------------------------------------------------
\* One tool call of chat_async with the values of its arguments and of its
\* result: the tool_start event, the call of the tool, the tool_end event.
ArgKeys == {"code", "query"}
ArgValues == {Str(ArgMaxLen - 1), Str(ArgMaxLen), Str(ArgMaxLen + 1),
              Str(ResultMaxLen + 1), IntValue}
Arguments == {NullArgs} \cup
    UNION {{ArgsOf(values) : values \in [K -> ArgValues]} : K \in SUBSET ArgKeys}
Results == {Str(ResultMaxLen - 1), Str(ResultMaxLen), Str(ResultMaxLen + 1)}

InitCall ==
    /\ app = AppInit
    /\ generation_lock = LockInit
    /\ req = [r \in Requests |-> ReqInit]
    /\ ready = << >>
    /\ thread = [r \in Requests |-> "none"]
    /\ text = << >> /\ parsed = NotParsed
    /\ loop = LoopIdle /\ registry = RegistryInit
    /\ call \in {[CallIdle EXCEPT !.pc = "start", !.arguments = a] : a \in Arguments}
    /\ StoreIdle

\* truncated_args = _truncate_args(tc.arguments); emit tool_start
ToolStart ==
    /\ call.pc = "start"
    /\ LET truncated_args == _truncate_args(call.arguments)
       IN  call' = IF truncated_args.raised
                   THEN [call EXCEPT !.pc = "raised"]
                   ELSE [call EXCEPT !.pc = "execute",
                                     !.tool_args = truncated_args.value]
    /\ UNCHANGED <<loop, registry, qvars, pvars, svars, tvars>>

\* result = execute_async(tc.name, tc.arguments); the result is kept for
\* the response
ToolRun(result) ==
    /\ call.pc = "execute"
    /\ call' = [call EXCEPT !.pc = "end",
                            !.received = call.arguments,
                            !.result = result,
                            !.tool_results = Append(@, ToolResult("tool", result))]
    /\ UNCHANGED <<loop, registry, qvars, pvars, svars, tvars>>

\* emit tool_end with _truncate_result(result)
ToolEnd ==
    /\ call.pc = "end"
    /\ call' = [call EXCEPT !.pc = "returned",
                            !.tool_result = _truncate_result(call.result)]
    /\ UNCHANGED <<loop, registry, qvars, pvars, svars, tvars>>

NextCall ==
    \/ ToolStart
    \/ \E result \in Results : ToolRun(result)
    \/ ToolEnd

SpecCall == InitCall /\ [][NextCall]_vars

\* ---------------------------------------------------------------------
\* One Session object and the messages added to it, of either role and
\* with an empty, a short or a long content.
Roles == {"user", "assistant"}
Contents == {Str(0), Str(2), Str(3), Str(TitleMaxLen + 1)}

AddMessage(role, content) ==
    /\ Len(the_session.messages) < MaxMessages
    /\ the_session' = Session_add_message(the_session, role, content)
    /\ UNCHANGED <<qvars, pvars, lvars, svars>>

NextSession ==
    \/ \E role \in Roles, content \in Contents : AddMessage(role, content)

SpecSession == Init /\ [][NextSession]_vars

\* ------------------------------------------------------------ vocabulary
Registered(r) == req[r].queue_position # NoPos
Outstanding(r) == req[r].pc \in {"yielded", "responding", "waiting", "holding", "sent"}
Queued(r) == req[r].kind \in {"session", "stream"}
Running == {r \in Requests : thread[r] \in {"fresh", "aged"}}
Finishes(r) == req[r].pc # "done" /\ req'[r].pc = "done"
Gone(a, s) ==
    /\ ~InSeq(s, a.queued_session_ids)
    /\ s \notin Keys(a.position_map)
    /\ a.generating_session_id # s

\* ---------------------------------------------------------------- claims
\* C1: at every instant at most one backend generation call is executing in
\* the whole process, whichever chat endpoint the requests came through.
C1_OneGeneration == Cardinality(Running) <= 1

\* C2: requests for distinct sessions receive distinct queue positions, also
\* when one of them has acquired the guard and run to completion before the
\* others are served.
C2_DistinctPositions ==
    \A r, q \in Requests :
        (r # q /\ Registered(r) /\ Registered(q) /\ req[r].sid # req[q].sid)
            => req[r].queue_position # req[q].queue_position

C2_Witness ==
    \E r, q \in Requests :
        /\ req[r].sid # req[q].sid
        /\ req[r].pc = "done" /\ req[r].outcome = "ok" /\ Registered(r)
        /\ req[q].pc = "waiting" /\ Registered(q)

\* C3 as claimed: no two simultaneously outstanding requests hold the same
\* position, whichever sessions they target.
C3_NoSharedPosition ==
    \A r, q \in Requests :
        (r # q /\ Outstanding(r) /\ Outstanding(q))
            => req[r].queue_position # req[q].queue_position

\* C3 amended: two outstanding requests hold the same position only if they
\* target the same session, and no two registered sessions are mapped to the
\* same position.
C3_SharedOnlyWithinSession ==
    /\ \A r, q \in Requests :
          (r # q /\ Outstanding(r) /\ Outstanding(q)
             /\ req[r].queue_position = req[q].queue_position)
              => req[r].sid = req[q].sid
    /\ \A s, t \in Keys(app.position_map) :
          s # t => app.position_map[s] # app.position_map[t]

C3_Witness ==
    \E r, q \in Requests :
        /\ r # q /\ Outstanding(r) /\ Outstanding(q)
        /\ req[r].sid = req[q].sid
        /\ req[r].queue_position = req[q].queue_position

\* C4 as claimed, for the three simultaneous requests: a request that
\* acquired the guard without waiting (was_queued = false) is the one with
\* the lowest position; the others report was_queued = true.
Lowest(r) == Registered(r) /\ \A q \in Requests :
                 Registered(q) => req[r].queue_position <= req[q].queue_position

C5_CleanOnExit ==
    [][\A r \in Requests :
          (Queued(r) /\ Finishes(r)) =>
              /\ Gone(app', req[r].sid)
              /\ app'.generation_in_progress =>
                    \E q \in Requests : q # r /\ req'[q].pc \in {"holding", "sent"}
      ]_vars

C5_Witness ==
    \E r, q \in Requests :
        /\ req[r].outcome = "timed_out_waiting"
        /\ req[q].outcome = "generation_timed_out"
        /\ Gone(app, req[r].sid) /\ Gone(app, req[q].sid)

\* C6: a request whose deadline fires before it acquired the guard ends
\* with the timed-out-waiting outcome, never invoked the backend, and its
\* queue entry is removed; one whose deadline fires after it acquired the
\* guard ends with the generation-timed-out outcome, entry removed as well.
C6_TimeoutOutcomes ==
    [][\A r \in Requests :
          (Finishes(r) /\ req[r].must_cancel) =>
              /\ req[r].pc = "waiting" =>
                    /\ req'[r].outcome = "timed_out_waiting"
                    /\ req[r].rounds = 0 /\ thread[r] = "none"
              /\ req[r].pc = "holding" =>
                    req'[r].outcome = "generation_timed_out"
              /\ ~InSeq(req[r].sid, app'.queued_session_ids)
              /\ req[r].sid \notin Keys(app'.position_map)
      ]_vars

C6_Witness ==
    \E r, q \in Requests :
        /\ req[r].outcome = "timed_out_waiting" /\ ~req[r].acquired_lock
        /\ req[q].outcome = "generation_timed_out" /\ req[q].acquired_lock
        /\ thread[q] \in {"fresh", "aged"}

\* ---------------------------------------------------------------------
\* C7: whatever the backend hands back, the loop calls it at most
\* max_tool_rounds times and then returns a response; a response that
\* no terminal (tool-call-free) round produced has rounds_used =
\* max_tool_rounds and finished = FALSE.
C7_ReturnsWithinBudget ==
    /\ loop.backend_calls <= loop.max_rounds
    /\ loop.pc # "raised"
    /\ loop.pc = "returned" /\ ~loop.result.finished =>
           /\ loop.result.rounds_used = loop.max_rounds
           /\ loop.backend_calls = loop.max_rounds

\* the part of C7 that holds of every run, the aborted ones included
\* (kept as a check of the model)
LoopWithinBudget ==
    /\ loop.backend_calls <= loop.max_rounds
    /\ loop.pc = "returned" =>
           /\ loop.result.returned
           /\ loop.result.rounds_used <= loop.max_rounds
           /\ ~loop.result.finished =>
                  /\ loop.result.rounds_used = loop.max_rounds
                  /\ loop.backend_calls = loop.max_rounds
           /\ loop.result.finished => loop.result.rounds_used = loop.backend_calls

\* ---------------------------------------------------------------------
\* A fenced block is the stretch from an opening tag to the nearest closing
\* tag after it; its body is what stands between the two.
RECURSIVE FencedBodies(_, _)
FencedBodies(t, i) ==
    IF i > Len(t) THEN << >>
    ELSE IF t[i] = OPEN /\ \E k \in (i + 1)..Len(t) : t[k] = CLOSE
         THEN LET k == Least({x \in (i + 1)..Len(t) : t[x] = CLOSE})
              IN  <<StrStrip(SubSeq(t, i + 1, k - 1))>> \o FencedBodies(t, k + 1)
         ELSE FencedBodies(t, i + 1)

RECURSIVE ValidCalls(_)
ValidCalls(bodies) ==
    IF bodies = << >> THEN << >>
    ELSE (IF JsonLoads(Head(bodies)).exc = ""
          THEN <<ToolCall(JsonLoads(Head(bodies)).name, JsonLoads(Head(bodies)).arguments)>>
          ELSE << >>) \o ValidCalls(Tail(bodies))

\* C8: parse_tool_calls never raises, and what it returns is the calls of
\* the fenced blocks whose body is valid JSON, in their order in the text,
\* wherever the blocks with an invalid body stand.
C8_KeepsEveryValidBlock ==
    parsed.done =>
        /\ parsed.exc = ""
        /\ parsed.calls = ValidCalls(FencedBodies(text, 1))

\* what does hold: no call is made up, and the calls come in text order
\* (not part of C8's statement; kept as a check of the model)
RECURSIVE IsSubSeq(_, _)
IsSubSeq(a, b) ==
    IF a = << >> THEN TRUE
    ELSE IF b = << >> THEN FALSE
    ELSE IF Head(a) = Head(b) THEN IsSubSeq(Tail(a), Tail(b))
    ELSE IsSubSeq(a, Tail(b))

ParsedAreValidInOrder ==
    parsed.done /\ parsed.exc = "" =>
        IsSubSeq(parsed.calls, ValidCalls(FencedBodies(text, 1)))

C8_Scenario ==
    /\ parsed.done
    /\ text = BadUnclosed \o CallBlock("web_search", "dict")
    /\ parsed.calls = << >>


\* C9: executing a tool call never lets an exception out: every step of a
\* round's tool calls ends with one more ToolResult, a string, and the run
\* of the loop is never aborted by a tool call.
C9_ToolCallNeverRaises ==
    [][loop.pc = "tools" =>
          /\ loop'.pc # "raised"
          /\ Len(loop'.all_tool_results) = Len(loop.all_tool_results) + 1]_vars

\* C10: a call that names a tool the registry does not know gets the
\* result {"error": "Unknown tool: <name>"}, recorded as a ToolResult; the
\* calls after it in the round are still to run, and after the last one the
\* results are fed back and the loop goes on with its next round.
Unknown(name) == name \notin registry.tools \cup registry.lazy
Last(q) == q[Len(q)]

C10_UnknownToolGoesOn ==
    [][loop.pc = "tools" /\ Unknown(Head(loop.tool_calls).name) =>
          LET name == Head(loop.tool_calls).name
              unknown == ToolResult(name, JsonError(<<"Unknown tool: ", name>>))
          IN  /\ loop'.pc # "raised"
              /\ loop'.all_tool_results = Append(loop.all_tool_results, unknown)
              /\ loop'.all_tool_calls = Append(loop.all_tool_calls, Head(loop.tool_calls))
              /\ Tail(loop.tool_calls) # << >> =>
                     /\ loop'.pc = "tools"
                     /\ loop'.tool_calls = Tail(loop.tool_calls)
              /\ Tail(loop.tool_calls) = << >> =>
                     /\ Last(loop'.conversation).kind = "tool_results"
                     /\ Last(Last(loop'.conversation).results) = unknown
                     /\ \/ loop'.pc = "generate" /\ loop'.round_num = loop.round_num + 1
                        \/ loop'.pc = "returned" /\ ~loop'.result.finished]_vars

\* what holds of an unknown tool whose name can be looked up and whose
\* arguments are a dict (kept as a check of the model)
UnknownToolGoesOnForDicts ==
    [][/\ loop.pc = "tools" /\ Unknown(Head(loop.tool_calls).name)
       /\ ~Unhashable(Head(loop.tool_calls).name)
       /\ Head(loop.tool_calls).arguments.t = "dict"
       => /\ loop'.pc # "raised"
          /\ Last(loop'.all_tool_results) =
                ToolResult(Head(loop.tool_calls).name,
                           JsonError(<<"Unknown tool: ", Head(loop.tool_calls).name>>))
          /\ Tail(loop.tool_calls) # << >> => loop'.pc = "tools"]_vars

\* ---------------------------------------------------------------------
\* C16: with a profile that has no tools the loop makes exactly one round
\* (one backend call, no tool call executed) and returns finished = TRUE
\* with no tool calls.
C16_ZeroToolsOneRound ==
    ~loop.has_tools /\ loop.pc # "idle" =>
        /\ loop.backend_calls <= 1
        /\ loop.pc \in {"generate", "returned"}
        /\ loop.all_tool_calls = << >>
        /\ loop.pc = "returned" =>
               /\ loop.result.finished
               /\ loop.result.rounds_used = 1

\* what holds with such a profile when the backend's text holds no tool
\* call that parses: no nudge, one round (kept as a check of the model)
ZeroToolsPlainReply ==
    [][/\ loop.pc = "generate" /\ ~loop.has_tools /\ loop.round_num = 0
       /\ loop'.response # << >>
       /\ parse_tool_calls(loop'.response) = Parsed("", << >>)
       => /\ loop'.pc = "returned"
          /\ loop'.result.finished
          /\ loop'.result.rounds_used = 1
          /\ loop'.all_tool_calls = << >>]_vars

\* ---------------------------------------------------------------------
\* the events the claim speaks of: thinking events, which chat_async also
\* emits after generating, are left out of the comparison
RECURSIVE NamedEvents(_)
NamedEvents(events) ==
    IF events = << >> THEN << >>
    ELSE (IF Head(events).type = "thinking" THEN << >> ELSE <<Head(events)>>)
         \o NamedEvents(Tail(events))

RECURSIVE CallEvents(_, _)
CallEvents(calls, r) ==
    IF calls = << >> THEN << >>
    ELSE <<Event("tool_start", r, Head(calls).name), Event("tool_end", r, Head(calls).name)>>
         \o CallEvents(Tail(calls), r)

\* round r of a run whose response was `response`
EventsOfRound(response, r) ==
    <<Event("round_start", r, ""), Event("generating", r, "")>>
    \o CallEvents(parse_tool_calls(response).calls, r)

\* the rounds that are over are the assistant messages of the conversation
RECURSIVE EventsOfRounds(_, _)
EventsOfRounds(conversation, r) ==
    IF conversation = << >> THEN << >>
    ELSE IF Head(conversation).kind = "response"
         THEN EventsOfRound(Head(conversation).content, r)
              \o EventsOfRounds(Tail(conversation), r + 1)
         ELSE EventsOfRounds(Tail(conversation), r)

RoundsOver(l) == Cardinality({i \in 1..Len(l.conversation) : l.conversation[i].kind = "response"})

\* C12: the progress events of a run of chat_async that returned are, round
\* by round for the rounds 1..rounds_used, one round_start, one generating,
\* then for each tool call of the round in parse order its tool_start
\* directly followed by its tool_end; no event of a later round precedes an
\* event of an earlier one.
C12_EventsPerRound ==
    /\ \A i, j \in 1..Len(loop.events) : i < j => loop.events[i].round <= loop.events[j].round
    /\ loop.pc = "returned" /\ loop.mode = "async" =>
           /\ NamedEvents(loop.events) =
                  EventsOfRounds(loop.conversation, 1)
                  \o (IF loop.result.finished
                      THEN EventsOfRound(loop.response, RoundsOver(loop) + 1) ELSE << >>)
           /\ loop.result.rounds_used =
                  RoundsOver(loop) + (IF loop.result.finished THEN 1 ELSE 0)

\* a run of two rounds whose first round had two tool calls
C12_Witness ==
    /\ loop.pc = "returned" /\ loop.mode = "async"
    /\ loop.result.rounds_used = 2
    /\ Len(loop.all_tool_calls) = 2
    /\ Len(loop.events) >= 8

\* the calls parsed from the responses of the rounds that are over, in order
RECURSIVE RoundCalls(_)
RoundCalls(conversation) ==
    IF conversation = << >> THEN << >>
    ELSE (IF Head(conversation).kind = "response"
          THEN parse_tool_calls(Head(conversation).content).calls
          ELSE << >>) \o RoundCalls(Tail(conversation))

ToolRoundsSoFar(l) == \A i \in 1..Len(l.conversation) : l.conversation[i].kind # "nudge"
PlainText(t) == t # << >> /\ \A i \in 1..Len(t) : t[i].k = "text"

\* C17: when each of the first n rounds had tool calls (n below
\* max_tool_rounds) and the backend then hands back plain text with no tool
\* call, the loop returns rounds_used = n+1, finished = TRUE and exactly
\* the calls of those n rounds in the order they were parsed.
C17_ToolRoundsThenText ==
    [][/\ loop.pc = "generate" /\ ToolRoundsSoFar(loop)
       /\ PlainText(loop'.response) /\ loop'.backend_calls = loop.backend_calls + 1
       => /\ loop'.pc = "returned"
          /\ loop'.result.finished
          /\ loop'.result.rounds_used = loop.round_num + 1
          /\ loop.round_num < loop.max_rounds
          /\ loop'.all_tool_calls = RoundCalls(loop.conversation)
          /\ Len(loop'.all_tool_results) = Len(loop'.all_tool_calls)]_vars

\* the scenario of the specification (one call, then text) and a run with
\* two rounds of calls before the text
C17_Witness ==
    /\ loop.pc = "returned" /\ loop.result.finished
    /\ loop.response = Hello
    /\ loop.result.rounds_used = 3
    /\ Len(loop.all_tool_calls) >= 2
    /\ loop.all_tool_calls = RoundCalls(loop.conversation)
    /\ ToolRoundsSoFar(loop)

\* ---------------------------------------------------------------------
\* the requests that hold the generation guard
Holders == {r \in Requests : req[r].pc \in {"holding", "sent"}}

\* ---------------------------------------------------------------------
\* vocabulary of the store and the stream
IsPrefix(a, b) == Len(a) <= Len(b) /\ SubSeq(b, 1, Len(a)) = a
Terminal(e) == e.type \in {"complete", "error"}
Rejections == {"400 Invalid model_size", "404 Session not found", "400 Unknown profile"}
Invalid(r) == model_size[r] \notin ValidSizes \/ store[req[r].sid].status # "ok"
Streams == {r \in Requests : req[r].kind = "stream" /\ req[r].pc # "new"}

RECURSIVE EventsUpTo(_)
EventsUpTo(n) == IF n = 0 THEN << >> ELSE EventsUpTo(n - 1) \o RoundEvents(n)

\* the step in which event_generator yields its terminal event
YieldsTerminal(r) ==
    /\ Len(chunks'[r]) = Len(chunks[r]) + 1
    /\ Terminal(Last(chunks'[r]))

C13_AppendOnly ==
    [][\A s \in SessionIds :
          /\ IsPrefix(store[s].messages, store'[s].messages)
          /\ \A i, j \in 1..Len(store'[s].messages) :
                 i < j => store'[s].messages[i].of <= store'[s].messages[j].of]_vars

\* what does hold: a save never drops what the saving request had loaded
\* (kept as a check of the model)
SaveKeepsLoaded ==
    [][\A r \in Requests :
          req[r].pc # "new" /\ store'[req[r].sid] # store[req[r].sid] /\ session'[r] # session[r] =>
              /\ store'[req[r].sid].messages = session'[r]
              /\ IsPrefix(session[r], session'[r])]_vars

\* C14: a session request with an invalid model size, an unknown session
\* or a session of an unknown profile ends with a client error in its
\* first step; AppState, the store and the guard stay as they were.
C14_RejectedBeforeRegistration ==
    [][\A r \in Requests :
          /\ req[r].pc = "start" /\ req[r].kind \in {"session", "stream"}
          /\ Invalid(r) /\ req'[r] # req[r]
          => /\ req'[r].pc = "done"
             /\ req'[r].outcome \in Rejections
             /\ req'[r].queue_position = NoPos
             /\ ~req'[r].acquired_lock
             /\ app' = app
             /\ store' = store
             /\ session' = session
             /\ generation_lock' = generation_lock]_vars

\* a request was turned away for its session while another one generates
C14_Witness ==
    \E r, q \in Requests :
        /\ req[r].pc = "done" /\ req[r].outcome = "404 Session not found"
        /\ req[q].pc = "holding" /\ app.queued_session_ids = <<req[q].sid>>
        /\ req[r].queue_position = NoPos

\* C15: once the handler of a request whose client went away has ended,
\* the entry of its session is out of the queue unless another request of
\* that session is still outstanding, and the request does not hold the
\* guard.
C15_DisconnectCleansUp ==
    \A r \in Requests :
        req[r].outcome = "disconnected" =>
            /\ r \notin Holders
            /\ \/ \E q \in Requests \ {r} : Outstanding(q) /\ req[q].sid = req[r].sid
               \/ /\ ~InSeq(req[r].sid, app.queued_session_ids)
                  /\ req[r].sid \notin Keys(app.position_map)

\* the second half of C15 alone: a stream cut during generation leaves no
\* entry (kept as a check of the model)
DisconnectWhileGenerating ==
    [][\A r \in Requests :
          req[r].pc = "holding" /\ req'[r].outcome = "disconnected" =>
              /\ ~InSeq(req[r].sid, app'.queued_session_ids)
              /\ req[r].sid \notin Keys(app'.position_map)]_vars

\* the step in which a session request stores its answer
Succeeds(r) ==
    /\ req[r].pc = "holding"
    /\ \/ req[r].kind = "session" /\ req'[r].pc = "done" /\ req'[r].outcome = "ok"
       \/ req[r].kind = "stream" /\ req'[r].pc = "sent"

\* C18: a request that finds n messages stored loads them and adds its
\* user message; when it succeeds it stores n+2 messages, the n old ones,
\* the user message and one assistant message; chat_async was given the n
\* old ones followed by the user message once.
C18_StoresTwoMore ==
    [][\A r \in Requests :
          /\ req[r].pc = "start" /\ req'[r].pc = "yielded" =>
                 session'[r] = store[req[r].sid].messages \o <<SessionMessage("user", r)>>
          /\ Succeeds(r) =>
                 LET n == Len(session[r]) - 1
                     old == SubSeq(session[r], 1, n)
                 IN  /\ session[r][n + 1] = SessionMessage("user", r)
                     /\ store'[req[r].sid].messages =
                            old \o <<SessionMessage("user", r), SessionMessage("assistant", r)>>
                     /\ Len(store'[req[r].sid].messages) = n + 2
                     /\ given[r] = old \o <<SessionMessage("user", r)>>]_vars

\* the second of two chats on one session: two messages were stored, four are
C18_Witness ==
    \E r \in Requests :
        /\ req[r].pc = "done" /\ req[r].outcome = "ok"
        /\ Len(session[r]) = 4
        /\ store[req[r].sid].messages = session[r]
        /\ Len(given[r]) = 3

\* ---------------------------------------------------------------------

\* C19: the generating flag and the generating session id of the status
\* are set exactly while some request holds the guard, the id names the
\* session of that request, and both are clear while no request holds it.
C19_StatusFollowsGuard ==
    /\ Holders # {} =>
           /\ app.generation_in_progress
           /\ \E r \in Holders : app.generating_session_id = req[r].sid
    /\ Holders = {} =>
           /\ ~app.generation_in_progress
           /\ app.generating_session_id = NoSession

\* the sessions of the requests that registered and do not hold the guard
\* yet, in the order of their positions
Waiting == {r \in Requests : Registered(r) /\ req[r].pc \in {"yielded", "responding", "waiting"}}

\* C20: the queued session ids of the status are exactly the sessions of
\* the requests that have registered and not yet acquired the guard, each
\* once, in registration order.
C20_QueuedAreWaiting ==
    /\ \A s \in SessionIds :
          InSeq(s, app.queued_session_ids) <=> \E r \in Waiting : req[r].sid = s
    /\ \A i, j \in 1..Len(app.queued_session_ids) :
          i < j => /\ app.queued_session_ids[i] # app.queued_session_ids[j]
                   /\ app.position_map[app.queued_session_ids[i]]
                        < app.position_map[app.queued_session_ids[j]]

\* ---------------------------------------------------------------------
\* C21: the queue position a request reports is its place in the queue at
\* the moment it registered, 0 meaning immediate: a request that registers
\* while no other request is outstanding reports queue_position 0.
Registers(r) == req[r].pc = "start" /\ req'[r].pc = "yielded"

C21_ImmediateIsZero ==
    [][\A r \in Requests :
          (Registers(r) /\ \A q \in Requests \ {r} : ~Outstanding(q))
              => req'[r].queue_position = 0
      ]_vars

\* ---------------------------------------------------------------------
\* a session is registered from add_to_queue until remove_from_queue: it
\* has a position or is in the queued list
RegisteredSession(a, s) ==
    s \in Keys(a.position_map) \/ InSeq(s, a.queued_session_ids)

\* C22: remove_from_queue is idempotent: applied twice in a row for one
\* session it gives the state it gives applied once, and applied for a
\* session that is not registered it leaves the queued list, the position
\* map, the position counter and the generating session id as they are.
C22_RemoveIdempotent ==
    \A s \in SessionIds :
        LET once == remove_from_queue(app, s)
        IN  /\ remove_from_queue(once, s) = once
            /\ ~RegisteredSession(app, s) => once = app

\* the first half alone: a second removal in a row changes nothing
RemoveTwiceIsRemoveOnce ==
    \A s \in SessionIds :
        LET once == remove_from_queue(app, s)
        IN  remove_from_queue(once, s) = once

\* ---------------------------------------------------------------------
\* C23: lazy resolution is idempotent and invisible: once get has handed
\* back a lazily registered tool, every later get hands back that tool and
\* leaves the registry as it is; a loaded tool has no loader any more, so
\* that it is loaded at most once; and the available tool names are the
\* same before and after every get, whether the load succeeds or fails.
C23_LazyResolvedOnce ==
    /\ registry.tools \cap registry.lazy = {}
    /\ \A name \in ToolNames, first_imports, later_imports \in BOOLEAN :
          LET first == get(registry, name, first_imports)
              later == get(first.registry, name, later_imports)
          IN  /\ available_tools(first.registry) = available_tools(registry)
              /\ first.found =>
                    /\ name \notin first.registry.lazy
                    /\ later = Lookup(FALSE, TRUE, first.registry)

\* a tool was resolved in one round and called again in a later one
C23_Witness ==
    /\ loop.pc = "returned"
    /\ \E i, j \in 1..Len(loop.all_tool_results) :
          /\ i < j
          /\ loop.all_tool_results[i] = loop.all_tool_results[j]
          /\ loop.all_tool_results[i].tool_name \in registry.tools
          /\ loop.all_tool_results[i].result =
                 ToolOutput(loop.all_tool_results[i].tool_name)

\* ---------------------------------------------------------------------
\* the first n characters of a text followed by an ellipsis
CutTo(v, n) == [t |-> "str", len |-> n, of |-> v.of, tail |-> "..."]

\* C24: in the tool_start event a string argument longer than 200
\* characters is its first 200 characters plus an ellipsis, except the
\* argument named code, which is passed whole; the result in the tool_end
\* event is cut to 500 characters plus an ellipsis; the tool receives the
\* arguments untruncated and the response holds the result untruncated.
C24_EventsCutToolWhole ==
    /\ call.pc \in {"execute", "end", "returned"} =>
          \A key \in call.arguments.keys :
              LET value == call.arguments.values[key]
                  sent == call.tool_args.values[key]
              IN  /\ (value.t = "str" /\ key # "code" /\ value.len > ArgMaxLen)
                        => sent = CutTo(value, ArgMaxLen)
                  /\ key = "code" => sent = value
    /\ call.pc \in {"end", "returned"} =>
          /\ call.received = call.arguments
          /\ call.tool_results = <<ToolResult("tool", call.result)>>
          /\ call.result.len = call.result.of /\ call.result.tail = ""
    /\ call.pc = "returned" =>
          /\ call.result.len > ResultMaxLen
                => call.tool_result = CutTo(call.result, ResultMaxLen)
          /\ call.result.len <= ResultMaxLen => call.tool_result = call.result

C24_Witness ==
    /\ call.pc = "returned"
    /\ call.arguments.keys = ArgKeys
    /\ \A key \in ArgKeys : call.arguments.values[key] = Str(ArgMaxLen + 1)
    /\ call.tool_args.values["code"] = Str(ArgMaxLen + 1)
    /\ call.tool_args.values["query"] # Str(ArgMaxLen + 1)
    /\ call.result = Str(ResultMaxLen + 1)
    /\ call.tool_result # call.result

\* ---------------------------------------------------------------------
\* a text holds a fence when an opening tag is followed by its closing tag
HasFence(t, open, close) ==
    \E i, j \in 1..Len(t) : i < j /\ t[i] = open /\ t[j] = close
FenceFree(t) == ~HasFence(t, OPEN, CLOSE) /\ ~HasFence(t, THINK, ENDTHINK)

\* C25: what extract_final_response hands back holds neither a tool-call
\* fence nor a reasoning fence, and a response that holds neither is handed
\* back as it is but for the whitespace around it.
C25_NoFenceLeft ==
    parsed.extracted =>
        /\ FenceFree(parsed.content)
        /\ FenceFree(text) => parsed.content = StrStrip(text)

\* the second half alone: a response without fences comes back stripped
FenceFreeComesBack ==
    (parsed.extracted /\ FenceFree(text)) => parsed.content = StrStrip(text)

\* the first half for responses whose tags stand whole in them
WholeTagsNoFenceLeft ==
    (parsed.extracted /\ \A i \in 1..Len(text) : text[i] # OpenHead)
        => FenceFree(parsed.content)

\* ---------------------------------------------------------------------
\* the contents of the user messages of a session, in order
UserContents(s) ==
    LET users == SelectSeq(s.messages, LAMBDA m : m.role = "user")
    IN  [i \in 1..Len(users) |-> users[i].of]
NonEmpty(contents) == SelectSeq(contents, LAMBDA c : c.len > 0)

\* C26: the title is the one derived from the first user message added to
\* the session (none while there is no user message), so that no later
\* add_message call, of any role or content, changes it.
C26_TitleFromFirstUserMessage ==
    /\ UserContents(the_session) = << >> => the_session.title = NoTitle
    /\ UserContents(the_session) # << >> =>
          the_session.title = TitleOf(UserContents(the_session)[1])

\* what holds instead: the title is derived from the first user message
\* whose content is not empty, and once it is set no add_message call
\* changes it.
TitleFromFirstContent ==
    /\ [](LET said == NonEmpty(UserContents(the_session))
          IN  /\ said = << >> => the_session.title = NoTitle
              /\ said # << >> => the_session.title = TitleOf(said[1]))
    /\ [][the_session.title # NoTitle =>
              the_session'.title = the_session.title]_vars

\* ---------------------------------------------------------------------
\* a request has called Lock.acquire
Attempted(r) == req[r].pc \in {"waiting", "holding", "sent", "done"}

\* C27: a request calls Lock.acquire in a later turn of the loop than the
\* one it registered in, so that among the requests whose handlers are
\* runnable at the same instant all have registered when the first of them
\* tries to acquire the guard.
C27_AllRegisterFirst ==
    [][\A r \in Requests :
          (~Attempted(r) /\ req'[r].pc \in {"waiting", "holding", "sent", "done"}) =>
              /\ req[r].pc \in {"yielded", "responding"}
              /\ \A q \in 1..NConcurrent : Registered(q)
      ]_vars

C27_Witness ==
    \E r, q \in 1..NConcurrent :
        /\ req[r].pc = "holding" /\ req[q].pc = "waiting"
        /\ req[r].sid # req[q].sid
        /\ "stream" \in {req[r].kind, req[q].kind}

\* ---------------------------------------------------------------------
\* add_to_queue assigned a new position to request r in this step
Assigned(r) == Registers(r) /\ req[r].sid \notin Keys(app.position_map)

\* C28 as claimed: the position counter never decreases, and a request that
\* completes add_to_queue gets a position above that of every request for
\* another session that completed it earlier.
C28_PositionsFollowRegistration ==
    [][/\ app'.next_position >= app.next_position
       /\ \A r, q \in Requests :
             (Registers(r) /\ q # r /\ Registered(q) /\ req[q].sid # req[r].sid)
                 => req[q].queue_position < req'[r].queue_position
      ]_vars

\* C28 amended: the counter never decreases; a request to which
\* add_to_queue assigns a new position gets one above the position of every
\* request that registered earlier, and one whose session is registered
\* gets the position of that session; positions do not change afterwards.
C28_PositionsFollowAssignment ==
    [][/\ app'.next_position >= app.next_position
       /\ \A r \in Requests :
             /\ Assigned(r) =>
                   \A q \in Requests \ {r} :
                       Registered(q) => req[q].queue_position < req'[r].queue_position
             /\ (Registers(r) /\ ~Assigned(r)) =>
                   req'[r].queue_position = app.position_map[req[r].sid]
             /\ Registered(r) => req'[r].queue_position = req[r].queue_position
      ]_vars

\* a request got the position of its session after a request for another
\* session had been given a higher one, and the first of them has finished
C28_Witness ==
    \E x, a, b \in Requests :
        /\ req[x].sid = req[b].sid /\ req[a].sid # req[b].sid
        /\ req[x].queue_position = 0 /\ req[b].queue_position = 0
        /\ req[a].queue_position = 1
        /\ x < a /\ a < b
        /\ req[x].pc = "done" /\ req[a].pc = "holding"

\* ---------------------------------------------------------------------
\* the backend handed back a response in this step, and it holds no call
ZeroCalls(response) == parse_tool_calls(response) = Parsed("", << >>)
Generated == loop.pc = "generate" /\ loop'.backend_calls = loop.backend_calls + 1

CallNames(calls) == [i \in 1..Len(calls) |-> calls[i].name]
ResultNames(results) == [i \in 1..Len(results) |-> results[i].tool_name]

\* what the k-th tool call of a round leaves behind when it is over
CallDone(k) ==
    LET calls == parse_tool_calls(loop.response).calls
        n == Len(loop.conversation)
    IN  /\ loop.tool_calls = SubSeq(calls, k, Len(calls))
        /\ k < Len(calls) =>
               /\ loop'.pc = "tools"
               /\ loop'.tool_calls = SubSeq(calls, k + 1, Len(calls))
               /\ ResultNames(loop'.round_results) = CallNames(SubSeq(calls, 1, k))
               /\ loop'.conversation = loop.conversation
        /\ k = Len(calls) =>
               /\ Len(loop'.conversation) = n + 2
               /\ SubSeq(loop'.conversation, 1, n) = loop.conversation
               /\ loop'.conversation[n + 1] =
                      ChatMessage("assistant", "response", loop.response, << >>)
               /\ loop'.conversation[n + 2].role = "user"
               /\ loop'.conversation[n + 2].kind = "tool_results"
               /\ ResultNames(loop'.conversation[n + 2].results) = CallNames(calls)

\* C30: in a round with tool calls the calls run one at a time in the order
\* parsed, each over before the next one starts, and after the last one the
\* history has grown by exactly two messages: the raw assistant response
\* and one user-role tool-results message with one entry per call, tagged
\* with the call's tool name, in the same order.
C30_CallsInOrderThenTwoMessages ==
    [][loop.pc = "tools" =>
          /\ loop'.pc # "raised"
          /\ CallDone(Len(loop.round_results) + 1) ]_vars

\* the same of the calls that come back (kept as a check of the model)
CallsThatComeBackInOrder ==
    [][loop.pc = "tools" /\ loop'.pc # "raised" =>
          CallDone(Len(loop.round_results) + 1) ]_vars

\* a round of two different calls is over and its results were fed back
TwoCallsFedBack ==
    /\ loop.pc = "generate" /\ loop.round_num = 1
    /\ Len(loop.conversation) = 3
    /\ Len(loop.conversation[3].results) = 2
    /\ loop.conversation[3].results[1].tool_name # loop.conversation[3].results[2].tool_name

\* ---------------------------------------------------------------------
\* the backend call a guarded request started is still on its worker thread
BackendRunning(r) == req[r].kind # "stateless" /\ thread[r] \in {"fresh", "aged"}

\* C31: once a backend call has started under the guard, the guard stays
\* with its request until the call has returned, also when the deadline
\* fires or the client goes away during generation: while the call runs on
\* its worker thread its request holds the guard and no other request does.
C31_GuardKeptWhileBackendRuns ==
    \A r \in Requests :
        BackendRunning(r) =>
            /\ r \in Holders
            /\ \A q \in Requests \ {r} : q \notin Holders

\* the calls of two requests on worker threads at once
TwoBackendCallsAtOnce ==
    \E r, q \in Requests : r # q /\ BackendRunning(r) /\ BackendRunning(q)

\* ---------------------------------------------------------------------
\* C32: the lock of the position counter is held only inside add_to_queue,
\* remove_from_queue, set_generating and get_generation_status and is given
\* back before any suspension point: at every point where a request is
\* suspended (waiting for the guard, generating) the lock is free, so that
\* a new request registers and the status is read while a generation is in
\* progress.
C32_QueueLockFreeAtSuspension == ~app.queue_lock

\* a request registered, and waits, while another one was generating
C32_Witness ==
    \E r, q \in Requests :
        /\ r # q
        /\ r \in Holders /\ thread[r] \in {"fresh", "aged"}
        /\ app.generation_in_progress
        /\ req[q].pc = "waiting"
        /\ req[q].sid \in Keys(app.position_map)
        /\ req[q].sid # req[r].sid
        /\ get_generation_status(app).status.generating_session_id = req[r].sid
        /\ InSeq(req[q].sid, get_generation_status(app).status.queued_session_ids)

\* ---------------------------------------------------------------------
\* the dicts of a list of messages, in its order
DictsOf(conversation) ==
    [i \in 1..Len(conversation) |->
        [role |-> conversation[i].role,
         content |-> [kind |-> conversation[i].kind, text |-> conversation[i].content,
                      results |-> conversation[i].results]]]

\* C33: within one run the message list given to the backend starts with
\* the system prompt followed by the caller's history and the new user
\* message in their order; the list of the next round is the list of the
\* round before with exactly two messages more at its end; and the history
\* list the caller passed in is never changed.
C33_MessagesGrowAtTheEnd ==
    [][/\ Generated =>
            LET n == Len(loop.conversation_history)
                user == ChatMessage("user", "user_message", << >>, << >>)
            IN  /\ Len(loop'.messages) >= n + 2
                /\ loop'.messages[1].role = "system"
                /\ loop'.messages[1].content.kind = "system_prompt"
                /\ SubSeq(loop'.messages, 2, n + 1) = DictsOf(loop.conversation_history)
                /\ loop'.messages[n + 2] = DictsOf(<<user>>)[1]
                /\ loop.backend_calls > 0 =>
                       /\ Len(loop'.messages) = Len(loop.messages) + 2
                       /\ SubSeq(loop'.messages, 1, Len(loop.messages)) = loop.messages
       /\ loop.pc # "idle" => loop'.conversation_history = loop.conversation_history
      ]_vars

\* the third round of a run that started from four earlier messages: the
\* backend is given the prompt, the four, the user message and two
\* messages for each of the two rounds before
C33_Witness ==
    /\ loop.backend_calls = 3
    /\ Len(loop.conversation_history) = 4
    /\ Len(loop.messages) = 1 + 4 + 1 + 2 + 2
    /\ loop.messages[8].content.kind = "tool_results"
    /\ loop.messages[10].content.kind = "nudge"

\* ---------------------------------------------------------------------
\* the chat requests of session s that have added their user message to
\* the session and are not over
InFlight(s) == {r \in Requests : Outstanding(r) /\ req[r].sid = s}

\* C34: pruning deletes a session only if it has no messages and has stayed
\* empty for longer than the grace period; a session that has received a
\* user message, also one whose first chat request is still waiting or
\* generating, is never deleted by pruning.
C34_PrunesOnlyIdleEmptySessions ==
    [][\A s \in SessionIds :
          store[s].status # "missing" /\ store'[s].status = "missing" =>
              /\ Len(store[s].messages) = 0
              /\ store[s].updated_at = "long_ago"
              /\ InFlight(s) = {} ]_vars

\* the first half alone: only files without messages that are older than
\* the grace period are deleted (kept as a check of the model)
PrunesOnlyOldEmptyFiles ==
    [][\A s \in SessionIds :
          store[s].status # "missing" /\ store'[s].status = "missing" =>
              /\ Len(store[s].messages) = 0
              /\ store[s].updated_at = "long_ago" ]_vars

\* a request gave its answer to a session whose file was deleted meanwhile
SavedAfterPruned ==
    \E r \in Requests :
        /\ req[r].pc = "holding"
        /\ store[req[r].sid].status = "missing"

\* ---------------------------------------------------------------------
\* the tool set of the profile of the run: all the tools of the registry,
\* or none
ProfileTools == IF loop.has_tools THEN ToolNames ELSE {}

\* the body of the tool of the next call of the round runs in this step
ToolRuns ==
    /\ loop.pc = "tools"
    /\ Len(loop'.all_tool_results) = Len(loop.all_tool_results) + 1
    /\ Last(loop'.all_tool_results).tool_name = Head(loop.tool_calls).name
    /\ Last(loop'.all_tool_results).result \in
           {ToolOutput(Head(loop.tool_calls).name),
            JsonError(<<"Tool execution failed: ", "boom">>)}

\* C35: the loop executes a parsed tool call only if the named tool belongs
\* to the tool set of the active profile: a tool of the registry that is
\* not part of the profile is never run for a conversation of that profile.
C35_OnlyToolsOfTheProfile ==
    [][ToolRuns => Head(loop.tool_calls).name \in ProfileTools]_vars

\* ---------------------------------------------------------------------
\* request r ended in a timeout or in an exception of the chat
Failed(r) ==
    /\ req[r].pc = "done"
    /\ req[r].outcome \in {"timed_out_waiting", "generation_timed_out", "error"}

\* the messages of request r that the store holds
Persisted(r) ==
    {<<s, i>> \in SessionIds \X (1..(2 * Cardinality(Requests))) :
        i <= Len(store[s].messages) /\ store[s].messages[i].of = r}

\* C36: a session chat request that ends in a timeout or an exception
\* leaves the stored session as it was: neither its user message nor an
\* assistant message of it is persisted, and the step it ends in does not
\* write the store.
C36_FailedRequestStoresNothing ==
    [][\A r \in Requests :
          Failed(r)' =>
              /\ Persisted(r)' = {}
              /\ ~Failed(r) => store' = store ]_vars

\* a request timed out during generation, another failed with an
\* exception, both with their user message in the session object
C36_Witness ==
    \E r, q \in Requests :
        /\ Failed(r) /\ req[r].outcome = "generation_timed_out"
        /\ Failed(q) /\ req[q].outcome = "error"
        /\ session[r] # << >> /\ session[q] # << >>
        /\ Persisted(r) = {} /\ Persisted(q) = {}

\* ---------------------------------------------------------------------
\* request r is granted the guard in this step
Granted(r) == ~req[r].acquired_lock /\ req'[r].acquired_lock
\* request q has registered and is not served yet
StillWaiting(q) == Queued(q) /\ req[q].pc \in {"yielded", "responding", "waiting"}
\* q registered before r: both got their position from the counter, no
\* other request ever named their sessions
RegisteredBefore(q, r) ==
    /\ req[q].queue_position < req[r].queue_position
    /\ req[q].sid # req[r].sid
    /\ \A x \in Requests \ {q, r} : req[x].sid \notin {req[q].sid, req[r].sid}

\* the order of service of C37: no request that registered later is
\* granted the guard before an earlier-registered request that still waits
GrantedInRegistrationOrder ==
    [][\A r, q \in Requests :
          Granted(r) /\ q # r /\ StillWaiting(q) => ~RegisteredBefore(q, r) ]_vars
\* the same among the requests of session_chat, which call Lock.acquire in
\* the turn after the one they registered in (kept as a check of the model)
SessionsGrantedInOrder ==
    [][\A r, q \in Requests :
          (Granted(r) /\ q # r /\ StillWaiting(q) /\ req[q].kind = "session")
              => ~RegisteredBefore(q, r) ]_vars

\* requests wait for the guard, nobody holds it and it was handed to no one
IdleWaiting ==
    /\ \E q \in Requests : req[q].pc = "waiting" /\ ~req[q].must_cancel
    /\ ~generation_lock.locked
    /\ ~\E w \in Requests : req[w].pc = "waiting" /\ req[w].wfut = "done"

\* the loop runs what is runnable, worker threads come back and time passes
SpecFair == Spec /\ WF_vars(Next)

\* every registered request is served or times out, and is taken out of
\* the queue (kept as a check of the model, under SpecFair)
RegisteredAreServed ==
    \A r \in Requests :
        (Queued(r) /\ Registered(r) /\ req[r].pc # "new")
            ~> (req[r].pc = "done" /\ req[r].sid \notin Keys(app.position_map))

\* the guard is never left idle with requests waiting for it (kept as a
\* check of the model)
NeverIdleWaiting == ~IdleWaiting

\* C37: a request that registered later is never granted the guard before
\* an earlier-registered request that still waits, and requests never wait
\* while nobody holds the guard or is about to take it. (That every
\* registered request is in the end served or timed out and removed from
\* the queue is RegisteredAreServed.)
C37_ServedInOrderAndNeverStuck ==
    [][/\ \A r, q \in Requests :
             Granted(r) /\ q # r /\ StillWaiting(q) => ~RegisteredBefore(q, r)
       /\ ~IdleWaiting' ]_vars

\* ---------------------------------------------------------------------
\* a run of the loop as chat (sync) and as chat_async see it, and what the
\* two have in common: everything but the progress events
AsMode(l, mode) == [l EXCEPT !.mode = mode]
Common(l) == [l EXCEPT !.mode = "", !.events = << >>]

\* the step from the current point of a run is the same in both
SameStep(body, imports) ==
    /\ loop.pc = "generate" =>
           \A response \in Responses :
               Common(AfterGenerate(AsMode(loop, "sync"), response)) =
               Common(AfterGenerate(AsMode(loop, "async"), response))
    /\ loop.pc = "tools" /\ ~IsAsync(Head(loop.tool_calls).name) =>
           LET sync == ToolStep(AsMode(loop, "sync"), registry, body, imports)
               async == ToolStep(AsMode(loop, "async"), registry, body, imports)
           IN  /\ Common(sync.loop) = Common(async.loop)
               /\ sync.registry = async.registry

\* C38: for the same profile, history, user message, backend outputs and
\* synchronous tools, chat and chat_async return the same ChatResponse:
\* from every point both runs have reached, the next step leaves both with
\* the same conversation, tool calls, tool results, round, outcome and
\* response.
C38_SyncAndAsyncAgree ==
    \A body \in {"ok", "raise"}, imports \in BOOLEAN : SameStep(body, imports)

\* the same when the arguments of the call are a JSON object (kept as a
\* check of the model)
SyncAndAsyncAgreeOnDicts ==
    (loop.pc = "tools" => Head(loop.tool_calls).arguments.t = "dict") =>
        \A body \in {"ok", "raise"}, imports \in BOOLEAN : SameStep(body, imports)

\* ---------------------------------------------------------------------
\* AppState driven by its methods alone, in any order and with any session
\* id; positions handed out are capped at MaxPositions
CallAddToQueue(session_id) ==
    /\ app.next_position < MaxPositions
    /\ app' = add_to_queue(app, session_id)

CallRemoveFromQueue(session_id) ==
    app' = remove_from_queue(app, session_id)

CallSetGenerating(value, session_id) ==
    app' = set_generating(app, value, session_id)

NextQueue ==
    \/ \E s \in SessionIds : CallAddToQueue(s) /\ UNCHANGED <<generation_lock, req, ready, thread, pvars, lvars, svars, tvars>>
    \/ \E s \in SessionIds : CallRemoveFromQueue(s) /\ UNCHANGED <<generation_lock, req, ready, thread, pvars, lvars, svars, tvars>>
    \/ \E value \in BOOLEAN, s \in SessionIds \cup {NoSession} :
           CallSetGenerating(value, s) /\ UNCHANGED <<generation_lock, req, ready, thread, pvars, lvars, svars, tvars>>

SpecQueue == Init /\ [][NextQueue]_vars

\* the sessions of the queued list
QueuedSet == {app.queued_session_ids[i] : i \in 1..Len(app.queued_session_ids)}

\* C39: after any sequence of add_to_queue, remove_from_queue and
\* set_generating calls the queued list has no duplicates and holds exactly
\* the keys of the position map, every mapped position is smaller than the
\* next-position counter, and the mapped positions are pairwise distinct.
C39_QueueBookkeeping ==
    /\ \A i, j \in 1..Len(app.queued_session_ids) :
           app.queued_session_ids[i] = app.queued_session_ids[j] => i = j
    /\ QueuedSet = Keys(app.position_map)
    /\ \A s \in Keys(app.position_map) : app.position_map[s] < app.next_position
    /\ \A s, t \in Keys(app.position_map) :
           app.position_map[s] = app.position_map[t] => s = t

\* two sessions are registered after a third one was registered and removed
C39_Witness ==
    /\ Len(app.queued_session_ids) = 2
    /\ app.next_position >= 3
    /\ \E s \in Keys(app.position_map) : app.position_map[s] = app.next_position - 1

\* ---------------------------------------------------------------------
\* C40: in every ChatResponse tool_calls and tool_results have the same
\* length and tool_results[i].tool_name equals tool_calls[i].name for every
\* index i, in execution order across all rounds; every parsed tool call of
\* a round that was followed by another backend call or by the end of the
\* budget is in them exactly once.
C40_CallsAndResultsPaired ==
    loop.pc = "returned" =>
        /\ Len(loop.all_tool_calls) = Len(loop.all_tool_results)
        /\ \A i \in 1..Len(loop.all_tool_calls) :
               loop.all_tool_results[i].tool_name = loop.all_tool_calls[i].name
        /\ loop.all_tool_calls = RoundCalls(loop.conversation)

\* a response that carries calls of two different tools
C40_Witness ==
    /\ loop.pc = "returned"
    /\ Len(loop.all_tool_calls) >= 2
    /\ loop.all_tool_calls[1].name # loop.all_tool_calls[2].name
    /\ loop.all_tool_results[2].tool_name = loop.all_tool_calls[2].name

====
